---------------------------- MODULE Spec2Model ----------------------------
(***************************************************************************)
(* Overtalkerr conversation engine: the platform-neutral intent handlers   *)
(* of unified_voice_handler.py, the backend facade of overseerr.py, the    *)
(* three backend clients of media_backends.py and the fuzzy re-ranking of  *)
(* enhanced_search.py, for one (user_id, conversation_id) key.             *)
(***************************************************************************)
EXTENDS Integers, Sequences, FiniteSets, TLC

(***************************************************************************)
(* Bounds of the model.                                                    *)
(***************************************************************************)
\* longest result list the downstream service answers a search with
MaxResults == 2

(***************************************************************************)
(* Values.                                                                 *)
(***************************************************************************)
\* Python's None, where the other values are strings
None == "None"

\* Python's None, where the other values are numbers: an absent
\* _fuzzy_score or _combined_score key, a season that was not given
NoScore == -1

NoSeason == -1

\* year_filter is None or the four characters re.search(r"(\d{4})") matched
NoYear == <<>>

\* dt.date.today() of pick_best, as yyyymmdd
Today == 20261106

\* a date value of Python: a dt.date in memory, its isoformat() text once
\* it went through json.dumps with DateTimeEncoder
NoDate == [t |-> "none", v |-> 0]

DateObj(d) == [t |-> "date", v |-> d]

DateStr(d) == [t |-> "str", v |-> d]

\* a release date of the service that is text but no ISO date: int() of
\* its first four characters and dt.date.fromisoformat() both raise
Unparseable == -1

\* release_date[:4] of an ISO date kept as yyyymmdd
YearOf(d) == d \div 10000

Backends == {"overseerr", "jellyseerr", "ombi"}

(***************************************************************************)
(* What the downstream service holds: raw search hits.  status is the      *)
(* mediaInfo.status of Overseerr/Jellyseerr; available/requested/approved  *)
(* are the fields of Ombi.                                                 *)
(***************************************************************************)
RawItem(id, mt, status, date, title) ==
    [id |-> id, mediaType |-> mt, status |-> status,
     available |-> (status = 5),
     requested |-> (status \in {2, 3}),
     approved |-> (status = 3),
     releaseDate |-> date,
     title |-> title]

\* the service's titles, in the order it lists them
Catalogue ==
    << RawItem(11, "movie", 1, 20150612, "Q"),
       RawItem(12, "tv",    4, 20270301, "Q Rebirth"),
       RawItem(13, "movie", 5, 0,        "Q"),
       RawItem(14, "tv",    3, 20280101, "Q Rebirth"),
       RawItem(15, "movie", 2, 20200101, "Kew"),
       RawItem(0,  "tv",    1, 0,        "Q"),
       RawItem(17, "movie", 1, 20010101, "Zed"),
       RawItem(18, "movie", 1, 20240101, "Queue") >>

\* rapidfuzz's fuzz.ratio, fuzz.partial_ratio, fuzz.token_sort_ratio and
\* fuzz.token_set_ratio of the query "q" and a title, both lower-cased
Similarity(title) ==
    IF title = "Q" THEN [ratio |-> 100, partial |-> 100, token_sort |-> 100, token_set |-> 100]
    ELSE IF title = "Q Rebirth"
    THEN [ratio |-> 20, partial |-> 100, token_sort |-> 20, token_set |-> 100]
    ELSE IF title = "Kew" THEN [ratio |-> 50, partial |-> 50, token_sort |-> 50, token_set |-> 50]
    ELSE IF title = "Queue" THEN [ratio |-> 80, partial |-> 90, token_sort |-> 80, token_set |-> 85]
    ELSE IF title = "Cue" THEN [ratio |-> 65, partial |-> 60, token_sort |-> 65, token_set |-> 62]
    ELSE IF title = "Zed" THEN [ratio |-> 40, partial |-> 40, token_sort |-> 40, token_set |-> 40]
    ELSE [ratio |-> 0, partial |-> 0, token_sort |-> 0, token_set |-> 0]

Range(s) == { s[i] : i \in 1..Len(s) }

RECURSIVE FilterSeq(_, _)
\* [x for x in s if x in keep]
FilterSeq(s, keep) ==
    IF s = <<>> THEN <<>>
    ELSE (IF Head(s) \in keep THEN <<Head(s)>> ELSE <<>>)
         \o FilterSeq(Tail(s), keep)

\* the result lists a search can be answered with: up to MaxResults titles
\* of the catalogue
RawResponses ==
    { FilterSeq(Catalogue, picked) :
        picked \in { S \in SUBSET Range(Catalogue) : Cardinality(S) <= MaxResults } }

(***************************************************************************)
(* Normalised search results (the dicts with the underscore keys).         *)
(* _fuzzy_score is None until fuzzy_match_results sets it.                  *)
(***************************************************************************)
\* parse_date: a dt.date, or None for a missing date
parse_date(date_str) ==
    IF date_str = 0 \/ date_str = Unparseable THEN NoDate ELSE DateObj(date_str)

\* OverseerrBackend.normalize_result (JellyseerrBackend inherits it)
OverseerrNormalize(r) ==
    [id |-> r.id,
     _mediaType |-> r.mediaType,
     _releaseDate |-> r.releaseDate,
     _date |-> parse_date(r.releaseDate),
     _mediaStatus |-> r.status,
     _isAvailable |-> (r.status = 5),
     _isPartiallyAvailable |-> (r.status = 4),
     _isPending |-> (r.status = 2),
     _isProcessing |-> (r.status = 3),
     _title |-> r.title,
     _fuzzy_score |-> NoScore,
     _combined_score |-> NoScore]

\* OmbiBackend.normalize_result
OmbiNormalize(r, media_type) ==
    [id |-> r.id,
     _mediaType |-> media_type,
     _releaseDate |-> r.releaseDate,
     _date |-> parse_date(r.releaseDate),
     _mediaStatus |-> IF r.available THEN 5
                      ELSE IF r.approved THEN 3
                      ELSE IF r.requested THEN 2
                      ELSE 1,
     _isAvailable |-> r.available,
     _isPartiallyAvailable |-> FALSE,
     _isPending |-> (r.requested /\ ~r.approved),
     _isProcessing |-> (r.approved /\ ~r.available),
     _title |-> r.title,
     _fuzzy_score |-> NoScore,
     _combined_score |-> NoScore]

RECURSIVE MapSeq(_, _)
\* [Op(x) for x in s], Op being one of the two normalisations
MapSeq(s, backend_media_type) ==
    IF s = <<>> THEN <<>>
    ELSE <<IF backend_media_type = None
           THEN OverseerrNormalize(Head(s))
           ELSE OmbiNormalize(Head(s), backend_media_type)>>
         \o MapSeq(Tail(s), backend_media_type)

(***************************************************************************)
(* What one HTTP call ends with, once the retry adapter of                 *)
(* MediaBackend.__init__ is done: a response with a status code and a      *)
(* body, or an exception of the requests library.                          *)
(***************************************************************************)
HttpResp(status, body) == [k |-> "resp", status |-> status, body |-> body]

HttpExc(name) == [k |-> name, status |-> 0, body |-> <<>>]

\* requests.exceptions.Timeout, .ConnectionError, and .RetryError (the
\* retries on 429/5xx used up)
HttpExceptions == { HttpExc("Timeout"), HttpExc("ConnectionError"), HttpExc("RetryError") }

\* status codes of a response that raise_for_status() turns into HTTPError
ErrorStatuses == {401, 403, 404, 409}

AuthStatuses == {401, 403}

\* a value returned, or the exception class raised
Ret(v) == [exc |-> None, value |-> v]

Raise(cls) == [exc |-> cls, value |-> <<>>]


(***************************************************************************)
(* media_backends.py: the three backend clients.                           *)
(***************************************************************************)
\* OverseerrBackend.search: the raise of MediaBackendAuthError sits inside
\* the try block, whose last handler is "except Exception"
OverseerrSearch(http, media_type) ==
    IF http.k = "Timeout" THEN Raise("MediaBackendConnectionError")
    ELSE IF http.k = "ConnectionError" THEN Raise("MediaBackendConnectionError")
    ELSE IF http.k # "resp" THEN Raise("MediaBackendError")
    ELSE IF http.status \in AuthStatuses THEN Raise("MediaBackendError")
    ELSE IF http.status \in ErrorStatuses THEN Raise("MediaBackendError")
    ELSE Ret(MapSeq(FilterSeq(http.body,
                              { r \in Range(Catalogue) : media_type = None
                                                         \/ r.mediaType = media_type }),
                    None))

\* OmbiBackend._search_movies and ._search_tv: only Timeout and
\* ConnectionError have a handler
OmbiSearchOne(http, media_type) ==
    IF http.k = "Timeout" THEN Raise("MediaBackendConnectionError")
    ELSE IF http.k = "ConnectionError" THEN Raise("MediaBackendConnectionError")
    ELSE IF http.k # "resp" THEN Raise(http.k)
    ELSE IF http.status \in AuthStatuses THEN Raise("MediaBackendAuthError")
    ELSE IF http.status \in ErrorStatuses THEN Raise("HTTPError")
    ELSE Ret(MapSeq(FilterSeq(http.body, { r \in Range(Catalogue) : r.mediaType = media_type }),
                    media_type))

\* OmbiBackend.search: each of the two searches in its own
\* "except Exception" that logs and goes on
OmbiSearch(http_movie, http_tv, media_type) ==
    LET movies == IF media_type # "tv" THEN OmbiSearchOne(http_movie, "movie")
                  ELSE Ret(<<>>)
        shows  == IF media_type # "movie" THEN OmbiSearchOne(http_tv, "tv")
                  ELSE Ret(<<>>)
    IN  Ret((IF movies.exc = None THEN movies.value ELSE <<>>)
            \o (IF shows.exc = None THEN shows.value ELSE <<>>))

\* the body of a request the service accepted, and the dict
\* OverseerrBackend.request_media returns on 409
Created == "created"

AlreadyRequested == "Media already requested"

\* OverseerrBackend.request_media
OverseerrRequest(http) ==
    IF http.k = "Timeout" THEN Raise("MediaBackendConnectionError")
    ELSE IF http.k = "ConnectionError" THEN Raise("MediaBackendConnectionError")
    ELSE IF http.k # "resp" THEN Raise("MediaBackendError")
    ELSE IF http.status \in AuthStatuses THEN Raise("MediaBackendError")
    ELSE IF http.status = 409 THEN Ret(AlreadyRequested)
    ELSE IF http.status \in ErrorStatuses THEN Raise("MediaBackendError")
    ELSE Ret(Created)

\* OmbiBackend._request_movie
OmbiRequestMovie(http) ==
    IF http.k = "Timeout" THEN Raise("MediaBackendConnectionError")
    ELSE IF http.k = "ConnectionError" THEN Raise("MediaBackendConnectionError")
    ELSE IF http.k # "resp" THEN Raise(http.k)
    ELSE IF http.status \in AuthStatuses THEN Raise("MediaBackendAuthError")
    ELSE IF http.status \in ErrorStatuses THEN Raise("HTTPError")
    ELSE Ret(Created)

\* OmbiBackend._request_tv: the GET of the show's details, whose status is
\* only looked at by raise_for_status(), then the POST
OmbiRequestTv(http_show, http) ==
    IF http_show.k = "Timeout" THEN Raise("MediaBackendConnectionError")
    ELSE IF http_show.k = "ConnectionError" THEN Raise("MediaBackendConnectionError")
    ELSE IF http_show.k # "resp" THEN Raise(http_show.k)
    ELSE IF http_show.status \in ErrorStatuses THEN Raise("HTTPError")
    ELSE OmbiRequestMovie(http)

\* MediaBackend.request_media of the configured backend
BackendRequest(b, http_show, http, media_type) ==
    IF b = "ombi"
    THEN IF media_type = "movie" THEN OmbiRequestMovie(http)
         ELSE OmbiRequestTv(http_show, http)
    ELSE OverseerrRequest(http)

\* MediaBackend.search of the configured backend
BackendSearch(b, http, http_tv, media_type) ==
    IF b = "ombi" THEN OmbiSearch(http, http_tv, media_type)
    ELSE OverseerrSearch(http, media_type)

(***************************************************************************)
(* overseerr.py: the facade the handlers call.                             *)
(***************************************************************************)
\* the except clauses of overseerr.search and overseerr.request_media
Reclassify(r) ==
    IF r.exc = None THEN r
    ELSE IF r.exc = "MediaBackendAuthError" THEN Raise("OverseerrAuthError")
    ELSE IF r.exc = "MediaBackendConnectionError" THEN Raise("OverseerrConnectionError")
    ELSE Raise("OverseerrError")

\* overseerr.search
search(b, http, http_tv, media_type) ==
    Reclassify(BackendSearch(b, http, http_tv, media_type))

\* overseerr.request_media
request_media(b, http_show, http, media_type) ==
    Reclassify(BackendRequest(b, http_show, http, media_type))


(***************************************************************************)
(* Stable descending sort, as sorted(..., reverse=True) and                *)
(* list.sort(reverse=True) do it: elements with equal keys keep their      *)
(* order.  keys[i] is the key of items[i], a tuple of three numbers.       *)
(***************************************************************************)
\* a > b for Python tuples of three numbers, in the place of a >= b: the
\* sort is no longer stable
LexGE_Strict(a, b) ==
    \/ a[1] > b[1]
    \/ a[1] = b[1] /\ a[2] > b[2]
    \/ a[1] = b[1] /\ a[2] = b[2] /\ a[3] > b[3]

\* a >= b for Python tuples of three numbers
LexGE(a, b) ==
    \/ a[1] > b[1]
    \/ a[1] = b[1] /\ a[2] > b[2]
    \/ a[1] = b[1] /\ a[2] = b[2] /\ a[3] >= b[3]

RECURSIVE SortedIndices(_, _)
\* the indices 1..n of keys, ordered as the stable descending sort orders
\* the elements
SortedIndices(keys, n) ==
    IF n = 0 THEN <<>>
    ELSE LET init == SortedIndices(keys, n - 1)
             k == Cardinality({ i \in 1..Len(init) : LexGE(keys[init[i]], keys[n]) })
         IN  SubSeq(init, 1, k) \o <<n>> \o SubSeq(init, k + 1, Len(init))

StableSortDesc(items, keys) ==
    LET idx == SortedIndices(keys, Len(items))
    IN  [i \in 1..Len(items) |-> items[idx[i]]]

Max(S) == CHOOSE x \in S : \A y \in S : x >= y

(***************************************************************************)
(* enhanced_search.py                                                      *)
(***************************************************************************)
\* best_score of fuzzy_match_results, were it fuzz.ratio alone
BestScore_RatioOnly(r) == Similarity(r._title).ratio

\* best_score of SearchEnhancer.fuzzy_match_results: the best of rapidfuzz's
\* ratio, partial_ratio, token_sort_ratio and token_set_ratio
BestScore(r) ==
    LET sim == Similarity(r._title)
    IN  Max({sim.ratio, sim.partial, sim.token_sort, sim.token_set})

\* [s[n], ..., s[1]]
Reverse(s) == [i \in 1..Len(s) |-> s[Len(s) + 1 - i]]

\* fuzzy_match_results, were it to sort ascending and reverse the list:
\* results of equal score change places
fuzzy_match_results_Reversed(results, threshold) ==
    LET kept == FilterSeq(results, { r \in Range(results) : BestScore(r) >= threshold })
        scored == [i \in 1..Len(kept) |-> [kept[i] EXCEPT !._fuzzy_score = BestScore(kept[i])]]
    IN  Reverse(StableSortDesc(scored,
                               [i \in 1..Len(scored) |-> <<0 - scored[i]._fuzzy_score, 0, 0>>]))

\* SearchEnhancer.fuzzy_match_results
fuzzy_match_results(results, threshold) ==
    LET kept == FilterSeq(results, { r \in Range(results) : BestScore(r) >= threshold })
        scored == [i \in 1..Len(kept) |-> [kept[i] EXCEPT !._fuzzy_score = BestScore(kept[i])]]
    IN  StableSortDesc(scored, [i \in 1..Len(scored) |-> <<scored[i]._fuzzy_score, 0, 0>>])

(***************************************************************************)
(* overseerr.pick_best                                                     *)
(***************************************************************************)
\* the year filter of pick_best, were it to leave end_year out
InYearRange_NoEnd(r, start_year, end_year) ==
    /\ r._releaseDate # 0
    /\ r._releaseDate # Unparseable
    /\ start_year <= YearOf(r._releaseDate)

\* the year filter of pick_best: kept when the release date is there and
\* its year is in the range
InYearRange(r, start_year, end_year) ==
    /\ r._releaseDate # 0
    /\ r._releaseDate # Unparseable
    /\ start_year <= YearOf(r._releaseDate)
    /\ YearOf(r._releaseDate) <= end_year

\* r.get("_combined_score", 0) of score(): nothing in the repository sets
\* the key
CombinedScore(r) == IF r._combined_score = NoScore THEN 0 ELSE r._combined_score

\* score() of pick_best, were match quality its first key
PickScore_QualityFirst(r, upcoming_only) ==
    << CombinedScore(r),
       IF upcoming_only /\ r._date.t # "none" /\ r._date.v > Today THEN 1 ELSE 0,
       IF r._date.t # "none" THEN r._date.v ELSE 0 >>

\* score() of pick_best; rdate.toordinal() grows with the date, as yyyymmdd
\* does
PickScore(r, upcoming_only) ==
    << IF upcoming_only /\ r._date.t # "none" /\ r._date.v > Today THEN 1 ELSE 0,
       CombinedScore(r),
       IF r._date.t # "none" THEN r._date.v ELSE 0 >>

\* pick_best: "start_year, end_year = year_filter" raises ValueError unless
\* year_filter has two elements; a _date that is text has no toordinal()
pick_best(results, upcoming_only, year_filter) ==
    IF year_filter # NoYear /\ Len(year_filter) # 2 THEN Raise("ValueError")
    ELSE LET filtered ==
                 IF year_filter = NoYear THEN results
                 ELSE FilterSeq(results,
                                { r \in Range(results) :
                                    InYearRange(r, year_filter[1], year_filter[2]) })
         IN  IF \E r \in Range(filtered) : r._date.t = "str"
             THEN Raise("AttributeError")
             ELSE Ret(StableSortDesc(filtered,
                                     [i \in 1..Len(filtered) |->
                                        PickScore(filtered[i], upcoming_only)]))


(***************************************************************************)
(* unified_voice_handler.py: state, responses, helpers.                    *)
(***************************************************************************)
VARIABLES
    backend,   \* the client get_backend() made: fixed for the process
    service,   \* the titles the downstream service lists for the query
    store,     \* the rows of session_state for the conversation's key
    turn       \* the turn that ran last: what it was given and what it did

vars == <<backend, service, store, turn>>

\* media_type_from_text, for the slot texts "movie" and "tv": the type for
\* the API and the user's term
media_type_from_text(text) ==
    IF text = None THEN <<None, None>>
    ELSE IF text = "tv" THEN <<"tv", "TV show">>
    ELSE IF text = "movie" THEN <<"movie", "movie">>
    ELSE <<None, None>>

\* the state dict of handle_download without its 'results' key, which
\* reads as an empty list through state.get('results', [])
NewState_NoResults(query, media_type, year, upcoming_only, season, results, user_term) ==
    [query |-> query, media_type |-> media_type, year |-> year,
     upcoming_only |-> upcoming_only, season |-> season,
     results |-> <<>>, index |-> 0, user_term |-> user_term,
     pending_year_filter_question |-> FALSE,
     pending_did_you_mean_question |-> FALSE,
     pending_media_type_clarification |-> FALSE,
     clarification_type |-> None]

\* the state dict of handle_download with a flag left set
NewState_StaleFlag(query, media_type, year, upcoming_only, season, results, user_term) ==
    [query |-> query, media_type |-> media_type, year |-> year,
     upcoming_only |-> upcoming_only, season |-> season,
     results |-> results, index |-> 0, user_term |-> user_term,
     pending_year_filter_question |-> TRUE,
     pending_did_you_mean_question |-> FALSE,
     pending_media_type_clarification |-> FALSE,
     clarification_type |-> None]

\* the state dict handle_download builds; a key the dict lacks reads as
\* falsy through state.get()
NewState(query, media_type, year, upcoming_only, season, results, user_term) ==
    [query |-> query, media_type |-> media_type, year |-> year,
     upcoming_only |-> upcoming_only, season |-> season,
     results |-> results, index |-> 0, user_term |-> user_term,
     pending_year_filter_question |-> FALSE,
     pending_did_you_mean_question |-> FALSE,
     pending_media_type_clarification |-> FALSE,
     clarification_type |-> None]

\* DateTimeEncoder.default: a date becomes its isoformat() text
EncodeDate(d) == IF d.t = "date" THEN DateStr(d.v) ELSE d

\* json.dumps(state, cls=DateTimeEncoder), read back by json.loads
json_dumps(state) ==
    [state EXCEPT !.results =
        [i \in 1..Len(state.results) |->
            [state.results[i] EXCEPT !._date = EncodeDate(state.results[i]._date)]]]

\* save_state, were it to add a row whether or not the key has one
save_state_AddsRow(rows, state) == rows \o <<json_dumps(state)>>

\* save_state: the row of the key is updated, or a row is added
save_state(rows, state) ==
    IF rows # <<>> THEN [rows EXCEPT ![1] = json_dumps(state)]
    ELSE <<json_dumps(state)>>

\* what load_state returns when the key has no row
NoState == [absent |-> TRUE]

\* a row whose state_json is text that json.loads rejects
Malformed == [malformed |-> TRUE]

\* load_state: the parsed row; None when the key has no row or json.loads
\* raises
load_state(rows) ==
    IF rows # <<>> /\ rows[1] # Malformed THEN rows[1] ELSE NoState

\* VoiceResponse: reprompt is whether a reprompt text is given
VoiceResponse(speech, reprompt, should_end_session) ==
    [speech |-> speech, reprompt |-> reprompt,
     should_end_session |-> should_end_session]

\* no response: the handler raised
NoResponse == VoiceResponse("(exception)", FALSE, FALSE)

\* what a request asks the service for, of the seasons of a title: all of
\* them, or the ones listed; a movie has none
Payload(requestAll, seasons) ==
    [sent |-> TRUE, requestAll |-> requestAll, seasons |-> seasons]

\* no request was posted
NoPayload == [sent |-> FALSE, requestAll |-> FALSE, seasons |-> <<>>]

\* the payload of OverseerrBackend.request_media, were it to ask for all
\* seasons of every tv title
OverseerrPayload_AllSeasons(media_type, season) ==
    IF media_type = "tv" THEN Payload(TRUE, <<>>) ELSE Payload(FALSE, <<>>)

\* the payload of OverseerrBackend.request_media: "seasons" is [season]
\* or "all" for a tv title
OverseerrPayload(media_type, season) ==
    IF media_type = "tv"
    THEN IF season # NoSeason THEN Payload(FALSE, <<season>>) ELSE Payload(TRUE, <<>>)
    ELSE Payload(FALSE, <<>>)

\* the payload of OmbiBackend._request_movie and _request_tv
OmbiPayload(media_type, season) ==
    IF media_type = "movie" THEN Payload(FALSE, <<>>)
    ELSE IF season # NoSeason THEN Payload(FALSE, <<season>>)
    ELSE Payload(TRUE, <<>>)

\* a call of the facade as the turn logs it: overseerr.search(query,
\* media_type) or overseerr.request_media(media_id, media_type, season),
\* and what the HTTP calls it led to ended with
Call(op, id, media_type, season, payload, http) ==
    [op |-> op, id |-> id, media_type |-> media_type, season |-> season,
     payload |-> payload,
     http |-> [i \in 1..Len(http) |-> [k |-> http[i].k, status |-> http[i].status]]]

\* what a handler did: its response or the exception that left it, the
\* rows it leaves, its backend calls with what each gave back, and its
\* save_state calls
Outcome(resp, exc, rows, calls, rets, writes) ==
    [resp |-> resp, exc |-> exc, rows |-> rows, calls |-> calls,
     rets |-> rets, writes |-> writes]

\* a handler's return, were the record of a session that ends deleted
Respond_DropsEndedSession(resp, rows, calls, rets, writes) ==
    Outcome(resp, None, IF resp.should_end_session THEN <<>> ELSE rows,
            calls, rets, writes)

Respond(resp, rows, calls, rets, writes) ==
    Outcome(resp, None, rows, calls, rets, writes)

\* build_speech_for_item: which sentence closes the speech
build_speech_for_item(item) ==
    IF item._isAvailable THEN "found: already in your library, a different one?"
    ELSE IF item._isPartiallyAvailable THEN "found: partially in your library, is that the one?"
    ELSE IF item._isProcessing THEN "found: being downloaded, is that the one?"
    ELSE IF item._isPending THEN "found: pending approval, is that the one?"
    ELSE IF item._releaseDate > Today THEN "found: not released yet, request it anyway?"
    ELSE "found: is that the one?"

\* the loop of handle_download over results_before_fuzzy: the index of the
\* first result with the best fuzz.ratio, 0 when no ratio is above 0
BestMatch(results) ==
    LET ratio(i) == Similarity(results[i]._title).ratio
        best == Max({0} \cup { ratio(i) : i \in 1..Len(results) })
    IN  IF best = 0 THEN 0
        ELSE CHOOSE i \in 1..Len(results) :
                /\ ratio(i) = best
                /\ \A j \in 1..(i - 1) : ratio(j) < best

\* the loop of handle_download over ranked, were it to compare with <: the
\* first result with the earliest release date
Newest_Oldest(ranked) ==
    LET dated == { i \in 1..Len(ranked) : ranked[i]._releaseDate # 0
                                           /\ ranked[i]._releaseDate # Unparseable }
    IN  IF dated = {} THEN ranked[1]
        ELSE ranked[CHOOSE i \in dated :
                       /\ \A j \in dated : ranked[j]._releaseDate >= ranked[i]._releaseDate
                       /\ \A j \in dated : j < i =>
                              ranked[j]._releaseDate > ranked[i]._releaseDate]

\* the loop of handle_download over ranked: the first result with the
\* latest release date that parses, ranked[0] when no result has one
Newest(ranked) ==
    LET dated == { i \in 1..Len(ranked) : ranked[i]._releaseDate # 0
                                           /\ ranked[i]._releaseDate # Unparseable }
    IN  IF dated = {} THEN ranked[1]
        ELSE ranked[CHOOSE i \in dated :
                       /\ \A j \in dated : ranked[j]._releaseDate <= ranked[i]._releaseDate
                       /\ \A j \in dated : j < i =>
                              ranked[j]._releaseDate < ranked[i]._releaseDate]

\* "best_score > 40" of handle_download, were it best_score >= 40
ReasonableMatch_AtLeast(best_score) == best_score >= 40

\* "best_score > 40" of handle_download: the closest title is worth
\* suggesting
ReasonableMatch(best_score) == best_score > 40

\* the slots of a Download request, as handle_download reads them
Slots(title, year, media_type_text, upcoming_text, season_text) ==
    [MediaTitle |-> title, Year |-> year, MediaType |-> media_type_text,
     Upcoming |-> upcoming_text, Season |-> season_text]

\* handle_download, after the search gave results
DownloadRanked(slots, rows, results, calls, rets) ==
    LET media_title == slots.MediaTitle
        media_type == media_type_from_text(slots.MediaType)[1]
        user_term == media_type_from_text(slots.MediaType)[2]
        upcoming_only == slots.Upcoming \in {"yes", "true", "1", "upcoming"}
        year_filter == slots.Year
        season_number == slots.Season
        results_before_fuzzy == results
        fuzzy == IF results # <<>> THEN fuzzy_match_results(results, 60) ELSE results
        picked == pick_best(fuzzy, upcoming_only, year_filter)
        ranked == picked.value
        relaxed == pick_best(fuzzy, upcoming_only, NoYear)
        best == BestMatch(results_before_fuzzy)
        types == { ranked[i]._mediaType : i \in 1..Len(ranked) }
        state == NewState(media_title, media_type, year_filter, upcoming_only,
                          season_number, ranked, user_term)
    IN  IF picked.exc # None THEN Outcome(NoResponse, picked.exc, rows, calls, rets, 0)
        ELSE IF ranked = <<>> /\ year_filter # NoYear /\ relaxed.exc # None
        THEN Outcome(NoResponse, relaxed.exc, rows, calls, rets, 0)
        ELSE IF ranked = <<>> /\ year_filter # NoYear /\ relaxed.value # <<>>
        THEN Respond(VoiceResponse("not from that year, hear other years?", TRUE, FALSE),
                     save_state(rows, [state EXCEPT
                                          !.year = NoYear,
                                          !.results = relaxed.value,
                                          !.pending_year_filter_question = TRUE]),
                     calls, rets, 1)
        ELSE IF ranked = <<>> /\ results_before_fuzzy # <<>> /\ best # 0
                /\ ReasonableMatch(Similarity(results_before_fuzzy[best]._title).ratio)
        THEN Respond(VoiceResponse("did you mean?", TRUE, FALSE),
                     save_state(rows, [state EXCEPT
                                          !.query = "suggested",
                                          !.results = <<results_before_fuzzy[best]>>,
                                          !.pending_did_you_mean_question = TRUE]),
                     calls, rets, 1)
        ELSE IF ranked = <<>>
        THEN Respond(VoiceResponse("couldn't find any matches", FALSE, TRUE),
                     rows, calls, rets, 0)
        ELSE IF media_type = None /\ Len(ranked) > 1 /\ {"movie", "tv"} \subseteq types
        THEN Respond(VoiceResponse("is it a <type> named <newest>?", TRUE, FALSE),
                     save_state(rows, [state EXCEPT
                                          !.media_type = None,
                                          !.pending_media_type_clarification = TRUE,
                                          !.clarification_type = Newest(ranked)._mediaType]),
                     calls, rets, 1)
        ELSE Respond(VoiceResponse(build_speech_for_item(ranked[1]), TRUE, FALSE),
                     save_state(rows, state), calls, rets, 1)

\* the except clauses of handle_download, were they to drop the session
SearchFailed_DropsSession(rows, calls, exc) ==
    Respond(VoiceResponse("something went wrong with that search", FALSE, TRUE),
            <<>>, calls, <<exc>>, 1)

\* the except clauses of handle_download around overseerr.search
SearchFailed(rows, calls, exc) ==
    IF exc = "OverseerrConnectionError"
    THEN Respond(VoiceResponse("can't reach the media server", FALSE, TRUE),
                 rows, calls, <<exc>>, 0)
    ELSE IF exc = "OverseerrAuthError"
    THEN Respond(VoiceResponse("authentication problem, contact your administrator",
                               FALSE, TRUE),
                 rows, calls, <<exc>>, 0)
    ELSE IF exc = "OverseerrError"
    THEN Respond(VoiceResponse("something went wrong with that search", FALSE, TRUE),
                 rows, calls, <<exc>>, 0)
    ELSE Outcome(NoResponse, exc, rows, calls, <<exc>>, 0)

\* UnifiedVoiceHandler.handle_download
handle_download(b, slots, http, http_tv, rows) ==
    LET media_type == media_type_from_text(slots.MediaType)[1]
        found == search(b, http, http_tv, media_type)
        used == IF b # "ombi" THEN <<http>>
                ELSE (IF media_type # "tv" THEN <<http>> ELSE <<>>)
                     \o (IF media_type # "movie" THEN <<http_tv>> ELSE <<>>)
        calls == <<Call("search", 0, media_type, NoSeason, NoPayload, used)>>
    IN  IF slots.MediaTitle = ""
        THEN Respond(VoiceResponse("please tell me the title", TRUE, FALSE),
                     rows, <<>>, <<>>, 0)
        ELSE IF found.exc # None THEN SearchFailed(rows, calls, found.exc)
        ELSE DownloadRanked(slots, rows, found.value, calls, <<"results">>)

\* the clarification branch of handle_yes and handle_no, were it to keep
\* the results of both types in the saved state
AnswerClarification_KeepsResults(rows, state, wanted, opening) ==
    LET filtered_results ==
            FilterSeq(state.results,
                      { r \in Range(state.results) : r._mediaType = wanted })
    IN  IF filtered_results # <<>>
        THEN Respond(VoiceResponse(opening \o build_speech_for_item(filtered_results[1]),
                                   TRUE, FALSE),
                     save_state(rows, [state EXCEPT
                                          !.pending_media_type_clarification = FALSE,
                                          !.index = 0,
                                          !.media_type = wanted]),
                     <<>>, <<>>, 1)
        ELSE Respond(VoiceResponse("no results of that type", FALSE, TRUE),
                     rows, <<>>, <<>>, 0)

\* the clarification branch of handle_yes and handle_no, were it to save
\* the cleared flag first and the filtered results after
AnswerClarification_SavesTwice(rows, state, wanted, opening) ==
    LET filtered_results ==
            FilterSeq(state.results,
                      { r \in Range(state.results) : r._mediaType = wanted })
        cleared == save_state(rows, [state EXCEPT
                                        !.pending_media_type_clarification = FALSE])
    IN  IF filtered_results # <<>>
        THEN Respond(VoiceResponse(opening \o build_speech_for_item(filtered_results[1]),
                                   TRUE, FALSE),
                     save_state(cleared, [state EXCEPT
                                             !.pending_media_type_clarification = FALSE,
                                             !.results = filtered_results,
                                             !.index = 0,
                                             !.media_type = wanted]),
                     <<>>, <<>>, 2)
        ELSE Respond(VoiceResponse("no results of that type", FALSE, TRUE),
                     cleared, <<>>, <<>>, 1)

\* the clarification branch of handle_yes and handle_no, were it to leave
\* the flag set
AnswerClarification_KeepsFlag(rows, state, wanted, opening) ==
    LET filtered_results ==
            FilterSeq(state.results,
                      { r \in Range(state.results) : r._mediaType = wanted })
    IN  IF filtered_results # <<>>
        THEN Respond(VoiceResponse(opening \o build_speech_for_item(filtered_results[1]),
                                   TRUE, FALSE),
                     save_state(rows, [state EXCEPT
                                          !.results = filtered_results,
                                          !.index = 0,
                                          !.media_type = wanted]),
                     <<>>, <<>>, 1)
        ELSE Respond(VoiceResponse("no results of that type", FALSE, TRUE),
                     rows, <<>>, <<>>, 0)

\* handle_yes and handle_no with pending_media_type_clarification set: the
\* results of the wanted type, presented with the given opening
AnswerClarification(rows, state, wanted, opening) ==
    LET filtered_results ==
            FilterSeq(state.results,
                      { r \in Range(state.results) : r._mediaType = wanted })
    IN  IF filtered_results # <<>>
        THEN Respond(VoiceResponse(opening \o build_speech_for_item(filtered_results[1]),
                                   TRUE, FALSE),
                     save_state(rows, [state EXCEPT
                                          !.pending_media_type_clarification = FALSE,
                                          !.results = filtered_results,
                                          !.index = 0,
                                          !.media_type = wanted]),
                     <<>>, <<>>, 1)
        ELSE Respond(VoiceResponse("no results of that type", FALSE, TRUE),
                     rows, <<>>, <<>>, 0)

\* handle_yes on a pending question, were the cleared flag not saved
AnswerQuestion_NoSave(rows, cleared, nothing_left) ==
    IF cleared.results # <<>>
    THEN Respond(VoiceResponse(build_speech_for_item(cleared.results[1]), TRUE, FALSE),
                 rows, <<>>, <<>>, 0)
    ELSE Respond(VoiceResponse(nothing_left, FALSE, TRUE), rows, <<>>, <<>>, 0)

\* handle_yes with pending_year_filter_question or
\* pending_did_you_mean_question set: the state with the flag cleared is
\* saved, then results[0] is presented
AnswerQuestion(rows, cleared, nothing_left) ==
    IF cleared.results # <<>>
    THEN Respond(VoiceResponse(build_speech_for_item(cleared.results[1]), TRUE, FALSE),
                 save_state(rows, cleared), <<>>, <<>>, 1)
    ELSE Respond(VoiceResponse(nothing_left, FALSE, TRUE),
                 save_state(rows, cleared), <<>>, <<>>, 1)

\* handle_yes from "Create request in backend" on: the handlers are those
\* of OverseerrConnectionError and OverseerrError, and OverseerrAuthError
\* derives from neither
CreateRequest(b, http_show, http, rows, chosen, media_type, season_number) ==
    LET result == request_media(b, http_show, http, media_type)
        used == IF b = "ombi" /\ media_type # "movie"
                THEN IF http_show.k = "resp" /\ http_show.status \notin ErrorStatuses
                     THEN <<http_show, http>> ELSE <<http_show>>
                ELSE <<http>>
        posted == ~(b = "ombi" /\ media_type # "movie" /\ Len(used) = 1)
        payload == IF ~posted THEN NoPayload
                   ELSE IF b = "ombi" THEN OmbiPayload(media_type, season_number)
                   ELSE OverseerrPayload(media_type, season_number)
        calls == <<Call("request_media", chosen.id, media_type, season_number,
                        payload, used)>>
    IN  IF result.exc = "OverseerrConnectionError"
        THEN Respond(VoiceResponse("can't reach the media server, not submitted",
                                   FALSE, TRUE),
                     rows, calls, <<result.exc>>, 0)
        ELSE IF result.exc = "OverseerrError"
        THEN Respond(VoiceResponse("couldn't create that request", FALSE, TRUE),
                     rows, calls, <<result.exc>>, 0)
        ELSE IF result.exc # None
        THEN Outcome(NoResponse, result.exc, rows, calls, <<result.exc>>, 0)
        ELSE IF result.value = AlreadyRequested
        THEN Respond(VoiceResponse("already been requested", FALSE, TRUE),
                     rows, calls, <<result.value>>, 0)
        ELSE Respond(VoiceResponse(IF season_number # NoSeason /\ season_number # 0
                                   THEN "requested season <n>"
                                   ELSE "requested",
                                   FALSE, TRUE),
                     rows, calls, <<result.value>>, 0)

\* "if not state" of handle_yes and handle_no, were it to end the session
NoActiveSearch_Ends(rows, speech) ==
    Respond(VoiceResponse(speech, TRUE, TRUE), rows, <<>>, <<>>, 0)

\* "if not state" of handle_yes and handle_no: a re-prompt for a title
NoActiveSearch(rows, speech) ==
    Respond(VoiceResponse(speech, TRUE, FALSE), rows, <<>>, <<>>, 0)

\* "if idx >= len(results)" of handle_yes and handle_no, with the slip of
\* letting idx = len(results) through
RanOut_OffByOne(idx, results) == idx > Len(results)

\* "if idx >= len(results)" of handle_yes and handle_no
RanOut(idx, results) == idx >= Len(results)

\* whether results[idx] of a list is an element; idx is never negative
Subscriptable(results, idx) == (idx + 1) \in DOMAIN results

\* the checks of handle_yes on the chosen result, the _isPending one left out
ShortCircuit_NoAvailableCheck(chosen) ==
    IF chosen.id = 0 THEN "couldn't identify that media"
    ELSE IF chosen._isProcessing THEN "already being downloaded"
    ELSE IF chosen._isPending THEN "already requested, waiting for approval"
    ELSE None

ShortCircuit_NoPendingCheck(chosen) ==
    IF chosen.id = 0 THEN "couldn't identify that media"
    ELSE IF chosen._isAvailable THEN "already in your library"
    ELSE IF chosen._isProcessing THEN "already being downloaded"
    ELSE None

\* the checks of handle_yes on the chosen result before any request: what
\* the turn ends with, or None to go on
ShortCircuit(chosen) ==
    IF chosen.id = 0 THEN "couldn't identify that media"
    ELSE IF chosen._isAvailable THEN "already in your library"
    ELSE IF chosen._isProcessing THEN "already being downloaded"
    ELSE IF chosen._isPending THEN "already requested, waiting for approval"
    ELSE None

\* the _isPartiallyAvailable branch of handle_yes, were its else arm to
\* return the speech it sets
PartiallyAvailableStops_Returns(chosen, media_type, season_number) ==
    IF chosen._isPartiallyAvailable
    THEN IF media_type = "tv" /\ season_number # NoSeason /\ season_number # 0
         THEN FALSE
         ELSE TRUE
    ELSE FALSE

\* the _isPartiallyAvailable branch of handle_yes: whether it ends the
\* turn.  One arm logs, the other sets a speech that is overwritten below;
\* neither returns ("Continue with request but inform the user")
PartiallyAvailableStops(chosen, media_type, season_number) ==
    IF chosen._isPartiallyAvailable
    THEN IF media_type = "tv" /\ season_number # NoSeason /\ season_number # 0
         THEN FALSE
         ELSE FALSE
    ELSE FALSE

\* UnifiedVoiceHandler.handle_yes
handle_yes(b, http_show, http, rows) ==
    LET state == load_state(rows)
        idx == state.index
        results == state.results
        chosen == results[idx + 1]
        media_type == IF chosen._mediaType # None THEN chosen._mediaType
                      ELSE IF state.media_type # None THEN state.media_type
                      ELSE "movie"
    IN  IF state = NoState
        THEN NoActiveSearch(rows, "no active search, say a title")
        ELSE IF state.pending_media_type_clarification
        THEN AnswerClarification(rows, state, state.clarification_type, "")
        ELSE IF state.pending_year_filter_question
        THEN AnswerQuestion(rows, [state EXCEPT !.pending_year_filter_question = FALSE],
                            "no results to show")
        ELSE IF state.pending_did_you_mean_question
        THEN AnswerQuestion(rows, [state EXCEPT !.pending_did_you_mean_question = FALSE],
                            "don't have that result anymore")
        ELSE IF RanOut(idx, results)
        THEN Respond(VoiceResponse("run out of alternatives", FALSE, TRUE),
                     rows, <<>>, <<>>, 0)
        ELSE IF ~Subscriptable(results, idx)
        THEN Outcome(NoResponse, "IndexError", rows, <<>>, <<>>, 0)
        ELSE IF ShortCircuit(chosen) # None
        THEN Respond(VoiceResponse(ShortCircuit(chosen), FALSE, TRUE),
                     rows, <<>>, <<>>, 0)
        ELSE IF PartiallyAvailableStops(chosen, media_type, state.season)
        THEN Respond(VoiceResponse("partially in your library", FALSE, TRUE),
                     rows, <<>>, <<>>, 0)
        ELSE CreateRequest(b, http_show, http, rows, chosen, media_type, state.season)

\* handle_no without the check of the library: every "No" moves on
AffirmsAvailable_Never(idx, results) == FALSE

\* handle_no on a result that is in the library: "No" to "were you
\* thinking of a different one?" settles on it
AffirmsAvailable(idx, results) ==
    idx < Len(results) /\ results[idx + 1]._isAvailable

\* UnifiedVoiceHandler.handle_no
handle_no(rows) ==
    LET state == load_state(rows)
        idx == state.index
        results == state.results
    IN  IF state = NoState
        THEN NoActiveSearch(rows, "please tell me the title")
        ELSE IF state.pending_media_type_clarification
        THEN AnswerClarification(rows, state,
                                 IF state.clarification_type = "movie" THEN "tv" ELSE "movie",
                                 "OK, we have <count> for you. ")
        ELSE IF state.pending_year_filter_question
        THEN Respond(VoiceResponse("try again with a different year", FALSE, TRUE),
                     rows, <<>>, <<>>, 0)
        ELSE IF state.pending_did_you_mean_question
        THEN Respond(VoiceResponse("try again with a different title", FALSE, TRUE),
                     rows, <<>>, <<>>, 0)
        ELSE IF AffirmsAvailable(idx, results)
        THEN Respond(VoiceResponse("perfect, ready to watch in your library", FALSE, TRUE),
                     rows, <<>>, <<>>, 0)
        ELSE IF RanOut(idx + 1, results)
        THEN Respond(VoiceResponse("that's all I could find", TRUE, TRUE),
                     rows, <<>>, <<>>, 0)
        ELSE IF ~Subscriptable(results, idx + 1)
        THEN Outcome(NoResponse, "IndexError",
                     save_state(rows, [state EXCEPT !.index = idx + 1]),
                     <<>>, <<>>, 1)
        ELSE Respond(VoiceResponse("what about <next>?", TRUE, FALSE),
                     save_state(rows, [state EXCEPT !.index = idx + 1]),
                     <<>>, <<>>, 1)

(***************************************************************************)
(* The turns of one conversation.                                          *)
(***************************************************************************)
\* the Download requests of the model: the title is missing or "q", a
\* text without any keyword of the query enhancer
DownloadSlots ==
    { Slots("", NoYear, None, None, NoSeason),
      Slots("q", NoYear, None, None, NoSeason),
      Slots("q", NoYear, "movie", None, NoSeason),
      Slots("q", NoYear, "tv", None, 2),
      Slots("q", NoYear, None, "yes", NoSeason),
      Slots("q", NoYear, None, None, 2),
      Slots("q", <<"2", "0", "1", "5">>, None, None, NoSeason) }

\* what a call of the service can end with, its body aside
HttpOutcomes ==
    { HttpResp(200, <<>>) } \cup { HttpResp(s, <<>>) : s \in ErrorStatuses }
    \cup HttpExceptions

\* the outcomes a turn draws from: all of them where the log keeps them;
\* where it does not, one of each group the clients tell apart (403 is
\* handled as 401, 404 as RetryError, ConnectionError as Timeout)
TurnOutcomes(keep_http) ==
    IF keep_http THEN HttpOutcomes
    ELSE { HttpResp(200, <<>>), HttpResp(401, <<>>), HttpResp(409, <<>>),
           HttpExc("Timeout"), HttpExc("RetryError") }

\* the answer to a search: a response with status 200 lists the titles
SearchHttp(http) ==
    IF http.k = "resp" /\ http.status = 200 THEN HttpResp(200, service) ELSE http

\* request.slots of a request that carries none
NoSlots == Slots("", NoYear, None, None, NoSeason)

\* the turn a handler's outcome is logged as, the slots being those of a
\* Download request; the log of a call keeps what its HTTP calls ended
\* with only when asked to
Turn(intent, o, keep_http) ==
    [intent |-> intent, slots |-> NoSlots, resp |-> o.resp, exc |-> o.exc,
     calls |-> [i \in 1..Len(o.calls) |->
                  [o.calls[i] EXCEPT !.http = IF keep_http THEN @ ELSE <<>>]],
     rets |-> o.rets, writes |-> o.writes]

Init ==
    /\ backend \in Backends
    /\ service \in RawResponses
    /\ store = <<>>
    /\ turn = Turn("none", Respond(VoiceResponse("", FALSE, FALSE), <<>>, <<>>, <<>>, 0),
                   FALSE)

\* a Download turn; Ombi's two search endpoints answer separately
DownloadTurn(keep_http) ==
    \E slots \in DownloadSlots, http \in TurnOutcomes(keep_http),
       http_tv \in TurnOutcomes(keep_http) :
        /\ backend # "ombi" => http_tv = http
        /\ backend = "ombi" =>
              \/ http_tv = http
              \/ http.status = 401 /\ http_tv.status = 200
              \/ http.status = 200 /\ http_tv.k = "Timeout"
        /\ \E o \in { handle_download(backend, slots, SearchHttp(http),
                                       SearchHttp(http_tv), store) } :
               /\ store' = o.rows
               /\ turn' = [Turn("Download", o, keep_http) EXCEPT !.slots = slots]
        /\ UNCHANGED <<backend, service>>

\* a Yes turn; Ombi fetches the show before it requests a tv title
YesTurn(keep_http) ==
    \E http_show \in TurnOutcomes(keep_http), http \in TurnOutcomes(keep_http) :
        /\ backend # "ombi" => http_show = http
        /\ backend = "ombi" => (http_show = http \/ http_show.status = 200)
        /\ \E o \in { handle_yes(backend, http_show, http, store) } :
               /\ store' = o.rows
               /\ turn' = Turn("Yes", o, keep_http)
        /\ UNCHANGED <<backend, service>>

\* a No turn
NoTurn(keep_http) ==
    /\ \E o \in { handle_no(store) } :
           /\ store' = o.rows
           /\ turn' = Turn("No", o, keep_http)
    /\ UNCHANGED <<backend, service>>

Download == DownloadTurn(FALSE)

Yes == YesTurn(FALSE)

No == NoTurn(FALSE)

Next == Download \/ Yes \/ No

Spec == Init /\ [][Next]_vars

(***************************************************************************)
(* The same conversation with the HTTP outcomes kept in the turn's log.    *)
(***************************************************************************)
DownloadHttp == DownloadTurn(TRUE)

YesHttp == YesTurn(TRUE)

NoHttp == NoTurn(TRUE)

NextHttp == DownloadHttp \/ YesHttp \/ NoHttp

HttpSpec == Init /\ [][NextHttp]_vars

(***************************************************************************)
(* Properties of the conversation.  A property of one turn is an action    *)
(* formula: the unprimed store is the session store the turn found, turn'  *)
(* and store' are what it did.                                             *)
(***************************************************************************)
\* the pending flags a stored session state has set
PendingFlags(row) ==
    { f \in {"pending_year_filter_question", "pending_did_you_mean_question",
             "pending_media_type_clarification"} : row[f] }

\* the turn finds a stored state with no pending flag and the cursor on a
\* result
OnCandidate ==
    /\ store # <<>>
    /\ PendingFlags(store[1]) = {}
    /\ store[1].index < Len(store[1].results)

\* the result at the cursor of the stored state
Candidate == store[1].results[store[1].index + 1]

\* the media type handle_yes requests the candidate as
CandidateType ==
    IF Candidate._mediaType # None THEN Candidate._mediaType
    ELSE IF store[1].media_type # None THEN store[1].media_type
    ELSE "movie"

\* a season override applies to the candidate: a tv title and a truthy
\* season in the stored state
SeasonOverride ==
    CandidateType = "tv" /\ store[1].season # NoSeason /\ store[1].season # 0

\* the candidate is one handle_yes never requests
Settled(item) ==
    item.id = 0 \/ item._isAvailable \/ item._isProcessing \/ item._isPending

\* C1: every session state the engine has persisted, after any sequence of
\* Download, Yes and No turns, has at most one of the three pending flags
\* (year-relax, did-you-mean, type-clarification) set.
C1_AtMostOnePendingFlag ==
    \A i \in 1..Len(store) : Cardinality(PendingFlags(store[i])) <= 1

\* a turn has just persisted a state with a pending flag set
C1_Witness ==
    /\ turn.writes = 1
    /\ store # <<>>
    /\ Cardinality(PendingFlags(store[1])) = 1

\* the stored cursor is the index of one of the stored results
CursorInRange ==
    \A i \in 1..Len(store) :
        store[i].index >= 0 /\ store[i].index < Len(store[i].results)

\* a No turn on the last result, which is not in the library, says that is
\* all, ends the session and leaves the store alone
NoAtLastResult ==
    ( /\ turn'.intent = "No"
      /\ OnCandidate
      /\ store[1].index = Len(store[1].results) - 1
      /\ ~Candidate._isAvailable )
    => /\ turn'.resp.speech = "that's all I could find"
       /\ turn'.resp.should_end_session
       /\ turn'.exc = None
       /\ turn'.writes = 0
       /\ store' = store

\* C2: the stored cursor always satisfies 0 <= cursor < len(results); a No
\* turn with no pending flag at cursor = len(results) - 1 on a result not
\* flagged available ends with the terminal "that's all I could find",
\* writes nothing and raises nothing; no turn subscripts results out of
\* range.
C2_CursorInRange ==
    /\ []CursorInRange
    /\ [](turn.exc # "IndexError")
    /\ [][NoAtLastResult]_vars

\* a No turn has said that is all, on the last of several results, the
\* cursor having moved there
C2_Witness ==
    /\ turn.intent = "No"
    /\ turn.resp.speech = "that's all I could find"
    /\ store # <<>>
    /\ Len(store[1].results) > 1
    /\ store[1].index = Len(store[1].results) - 1

\* a Yes turn on a result that has no id or is available, processing or
\* pending makes no backend call and ends the session
YesOnSettled(no_flag_only) ==
    ( /\ turn'.intent = "Yes"
      /\ store # <<>>
      /\ no_flag_only => PendingFlags(store[1]) = {}
      /\ store[1].index < Len(store[1].results)
      /\ Settled(Candidate) )
    => /\ turn'.calls = <<>>
       /\ turn'.exc = None
       /\ turn'.resp.should_end_session

\* C3, as stated: on a Yes turn, request_media is never called when the
\* result at the cursor has no media id or is flagged available, processing
\* or pending, and each of these cases ends the turn with end-of-session
\* true and no backend call.
C3_AsStated == [][YesOnSettled(FALSE)]_vars

\* C3: on a Yes turn with no pending flag, request_media is never called
\* when the result at the cursor has no media id or is flagged available,
\* processing or pending, and each of these cases ends the turn with
\* end-of-session true and no backend call.
C3_YesOnSettled == [][YesOnSettled(TRUE)]_vars

\* a Yes turn has ended on a settled result with no call
C3_Witness ==
    /\ turn.intent = "Yes"
    /\ turn.calls = <<>>
    /\ turn.resp.speech \in {"couldn't identify that media", "already in your library",
                             "already being downloaded",
                             "already requested, waiting for approval"}

\* the Yes turn finds no pending flag and the cursor on a partially
\* available result that has an id, with no season override
OnPartiallyAvailable ==
    /\ OnCandidate
    /\ Candidate._isPartiallyAvailable
    /\ ~SeasonOverride

C5_NoOnAvailable ==
    [][ (turn'.intent = "No" /\ OnCandidate /\ Candidate._isAvailable)
        => /\ turn'.resp.speech = "perfect, ready to watch in your library"
           /\ turn'.resp.should_end_session
           /\ turn'.exc = None
           /\ turn'.writes = 0
           /\ store' = store ]_vars

\* a No turn has settled on a result in the library
C5_Witness ==
    /\ turn.intent = "No"
    /\ turn.resp.speech = "perfect, ready to watch in your library"
    /\ store # <<>>
    /\ store[1].results[store[1].index + 1]._isAvailable

\* C6: a Yes or No turn for a key with no stored session re-prompts for a
\* title with should_end_session false, makes no backend call, writes
\* nothing to the store and raises nothing.
C6_NoStoredSession ==
    [][ (turn'.intent \in {"Yes", "No"} /\ store = <<>>)
        => /\ turn'.resp.speech \in {"no active search, say a title",
                                     "please tell me the title"}
           /\ turn'.resp.reprompt
           /\ ~turn'.resp.should_end_session
           /\ turn'.calls = <<>>
           /\ turn'.writes = 0
           /\ turn'.exc = None
           /\ store' = <<>> ]_vars

\* a Yes turn has run with nothing stored
C6_Witness ==
    /\ turn.intent = "Yes"
    /\ store = <<>>
    /\ turn.resp.speech = "no active search, say a title"

\* the HTTP call that creates the request, in the log of a request_media
\* call: Ombi fetches the show first when the title is not a movie, and
\* posts only when that succeeded
CreationHttp(call) ==
    IF backend = "ombi" /\ call.media_type # "movie"
    THEN IF Len(call.http) = 2 THEN call.http[2] ELSE HttpExc("not made")
    ELSE call.http[1]

\* C7: for every backend (Overseerr, Jellyseerr, Ombi), when the service
\* answers the request-creation call with HTTP 409, request_media returns
\* the "already requested" outcome instead of raising, and the Yes turn
\* answers "already requested" with should_end_session true.
C7_ConflictIsAlreadyRequested ==
    ( /\ turn.intent = "Yes"
      /\ Len(turn.calls) = 1
      /\ turn.calls[1].op = "request_media"
      /\ CreationHttp(turn.calls[1]).k = "resp"
      /\ CreationHttp(turn.calls[1]).status = 409 )
    => /\ turn.rets = <<AlreadyRequested>>
       /\ turn.exc = None
       /\ turn.resp.speech = "already been requested"
       /\ turn.resp.should_end_session

\* the three kinds of failure of the facade
FailureKinds == {"OverseerrConnectionError", "OverseerrAuthError", "OverseerrError"}

\* the kind of failure the outcome of an HTTP call stands for: 401 and 403
\* are of authentication, a timeout and a transport failure of connection,
\* any other failure generic; None for a success
KindOf(h) ==
    IF h.k = "resp"
    THEN IF h.status \in AuthStatuses THEN "OverseerrAuthError"
         ELSE IF h.status \in ErrorStatuses THEN "OverseerrError"
         ELSE None
    ELSE IF h.k \in {"Timeout", "ConnectionError"} THEN "OverseerrConnectionError"
    ELSE "OverseerrError"

\* C8: for every backend, search fails with OverseerrAuthError when the
\* service answers 401 or 403, with OverseerrConnectionError on a timeout
\* or a transport failure, and with OverseerrError on any other failure,
\* and that kind is the one that reaches the handler.  Stated for a search
\* all of whose HTTP calls ended the same way.
C8_SearchFailureKinds ==
    ( /\ turn.intent = "Download"
      /\ Len(turn.calls) = 1
      /\ turn.calls[1].http # <<>>
      /\ \A i \in 1..Len(turn.calls[1].http) :
             turn.calls[1].http[i] = turn.calls[1].http[1]
      /\ KindOf(turn.calls[1].http[1]) # None )
    => turn.rets = <<KindOf(turn.calls[1].http[1])>>

\* the message of a turn for a failure of its backend call
FailureMessages(intent, kind) ==
    IF kind = "OverseerrAuthError"
    THEN {"authentication problem, contact your administrator"}
    ELSE IF kind = "OverseerrConnectionError"
    THEN IF intent = "Download" THEN {"can't reach the media server"}
         ELSE {"can't reach the media server, not submitted"}
    ELSE IF intent = "Download" THEN {"something went wrong with that search"}
         ELSE {"couldn't create that request"}

\* C9: whenever the backend call of a turn fails with one of the three
\* kinds (search in a Download turn, request_media in a Yes turn), the turn
\* returns the message for that kind with end-of-session true, and no
\* error of the three kinds leaves the handler as an exception.
C9_FailuresAreAnswered ==
    ( /\ turn.intent \in {"Download", "Yes"}
      /\ turn.rets # <<>>
      /\ turn.rets[1] \in FailureKinds )
    => /\ turn.exc = None
       /\ turn.resp.should_end_session
       /\ turn.resp.speech \in FailureMessages(turn.intent, turn.rets[1])

\* C10: a Download turn that ends without presenting a result or asking a
\* question (empty title, backend error of any kind, nothing found) writes
\* nothing to the session store: the record stored for the key before the
\* turn is unchanged after it.
C10_DownloadLeavesStore ==
    [][ ( /\ turn'.intent = "Download"
          /\ turn'.resp.speech \in
                {"please tell me the title", "can't reach the media server",
                 "authentication problem, contact your administrator",
                 "something went wrong with that search",
                 "couldn't find any matches"} )
        => (turn'.writes = 0 /\ store' = store) ]_vars

\* a Download turn has found nothing, or failed, with a session stored
C10_Witness ==
    /\ turn.intent = "Download"
    /\ turn.resp.speech \in {"couldn't find any matches",
                             "something went wrong with that search"}
    /\ store # <<>>
    /\ store[1].index = 1

\* int() of a decimal digit
Digit(c) ==
    CASE c = "0" -> 0 [] c = "1" -> 1 [] c = "2" -> 2 [] c = "3" -> 3 [] c = "4" -> 4
      [] c = "5" -> 5 [] c = "6" -> 6 [] c = "7" -> 7 [] c = "8" -> 8 [] c = "9" -> 9

\* the year a Year slot of four digits names
SlotYear(year) ==
    1000 * Digit(year[1]) + 100 * Digit(year[2]) + 10 * Digit(year[3]) + Digit(year[4])

\* the last turn was a Download with a Year slot whose search gave
\* results, one of them released in that year
DownloadWithYearHit ==
    /\ turn.intent = "Download"
    /\ turn.slots.Year # NoYear
    /\ turn.rets = <<"results">>
    /\ \E i \in 1..Len(service) :
           /\ service[i].releaseDate # 0
           /\ YearOf(service[i].releaseDate) = SlotYear(turn.slots.Year)

\* the Download presented a result of the year of its Year slot
PresentsYearHit ==
    DownloadWithYearHit
    => /\ turn.exc = None
       /\ turn.writes = 1
       /\ store # <<>>
       /\ PendingFlags(store[1]) = {}
       /\ store[1].index = 0
       /\ YearOf(store[1].results[1]._releaseDate) = SlotYear(turn.slots.Year)

\* the Yes after such a Download requests the result it presented
YesRequestsYearHit ==
    ( /\ DownloadWithYearHit
      /\ turn'.intent = "Yes"
      /\ OnCandidate
      /\ ~Settled(Candidate) )
    => /\ Len(turn'.calls) = 1
       /\ turn'.calls[1].op = "request_media"
       /\ turn'.calls[1].id = Candidate.id
       /\ turn'.calls[1].media_type = Candidate._mediaType

\* C11: a Download turn with a Year slot Y, when the backend returns
\* results of which at least one was released in year Y, presents first a
\* result whose release date is in year Y, and a following Yes calls
\* request_media with that result's id and media type.
C11_YearSlotPresentsThatYear ==
    /\ []PresentsYearHit
    /\ [][YesRequestsYearHit]_vars

\* the titles of the service's answer that the fuzzy filter of the
\* Download pipeline keeps
FuzzySurvivors ==
    { i \in 1..Len(service) :
        LET sim == Similarity(service[i].title)
        IN  Max({sim.ratio, sim.partial, sim.token_sort, sim.token_set}) >= 60 }

\* the last turn was a Download with a Year slot whose search gave
\* results, none of the ranked ones released in that year
DownloadWithYearMiss ==
    /\ turn.intent = "Download"
    /\ turn.slots.Year # NoYear
    /\ turn.rets = <<"results">>
    /\ FuzzySurvivors # {}
    /\ \A i \in FuzzySurvivors :
           \/ service[i].releaseDate = 0
           \/ YearOf(service[i].releaseDate) # SlotYear(turn.slots.Year)

\* C12: a Download turn with a year filter that matches no result, while
\* the ranking without the filter is not empty, ranks again without the
\* year filter and persists a state holding the relaxed results with the
\* year cleared, cursor 0 and the year-relax flag set; the response is an
\* open question with end-of-session false.
C12_YearMissIsRelaxed ==
    DownloadWithYearMiss
    => /\ turn.exc = None
       /\ turn.writes = 1
       /\ store # <<>>
       /\ PendingFlags(store[1]) = {"pending_year_filter_question"}
       /\ store[1].year = NoYear
       /\ store[1].index = 0
       /\ Len(store[1].results) = Cardinality(FuzzySurvivors)
       /\ turn.resp.reprompt
       /\ ~turn.resp.should_end_session

\* a Download that saves a state saves the season of its Season slot
SeasonIsStored ==
    (turn'.intent = "Download" /\ turn'.writes = 1)
    => store'[1].season = turn'.slots.Season

\* a Yes or a No turn leaves the stored season as it is
SeasonIsKept ==
    (turn'.intent \in {"Yes", "No"} /\ store # <<>>)
    => (store' # <<>> /\ store'[1].season = store[1].season)

\* a Yes turn that calls request_media passes the stored season, and a
\* request it posts for a tv title asks for that season only, or for all
\* seasons when none is stored
SeasonIsRequested ==
    (turn'.intent = "Yes" /\ turn'.calls # <<>>)
    => /\ store # <<>>
       /\ turn'.calls[1].season = store[1].season
       /\ (turn'.calls[1].media_type = "tv" /\ turn'.calls[1].payload.sent)
          => IF store[1].season # NoSeason
             THEN /\ turn'.calls[1].payload.seasons = <<store[1].season>>
                  /\ ~turn'.calls[1].payload.requestAll
             ELSE /\ turn'.calls[1].payload.seasons = <<>>
                  /\ turn'.calls[1].payload.requestAll

\* C13: the season number parsed from a Download's Season slot is stored in
\* the session and passed unchanged to request_media on the confirming
\* Yes, whatever No turns come between; a tv request with a stored season
\* asks the backend for that season only, and a tv request with no season
\* asks for all seasons.
C13_SeasonReachesRequest ==
    /\ [][SeasonIsStored]_vars
    /\ [][SeasonIsKept]_vars
    /\ [][SeasonIsRequested]_vars

\* a Yes turn, after a No turn moved the cursor, has requested season 2 of
\* a tv title
C13_Witness ==
    /\ turn.intent = "Yes"
    /\ store # <<>>
    /\ store[1].season = 2
    /\ store[1].index > 0
    /\ Len(turn.calls) = 1
    /\ turn.calls[1].media_type = "tv"
    /\ turn.calls[1].season = 2
    /\ turn.calls[1].payload = Payload(FALSE, <<2>>)
    /\ turn.rets = <<Created>>

\* the speeches of the terminal outcomes: a request was created, nothing
\* was found, the title is in the library already
TerminalSpeeches ==
    {"requested", "requested season <n>", "already been requested",
     "couldn't find any matches", "that's all I could find",
     "already in your library", "perfect, ready to watch in your library"}

\* C14: for every response of every turn, a response that poses an open
\* question (it carries a reprompt) has should_end_session false, and a
\* response of a terminal outcome (request created, nothing found, already
\* available) has should_end_session true.
C14_EndOfSession ==
    (turn.intent # "none" /\ turn.exc = None)
    => /\ turn.resp.reprompt => ~turn.resp.should_end_session
       /\ turn.resp.speech \in TerminalSpeeches => turn.resp.should_end_session

(***************************************************************************)
(* The ranking functions on their own: pick_best and fuzzy_match_results   *)
(* applied to result lists of up to MaxItems results.  Here service is     *)
(* the list handed to the function and turn the call that ran last.        *)
(***************************************************************************)
MaxItems == 3

\* a normalised result with a release date, a title and a _combined_score
RankItem(id, date, title, combined) ==
    [OverseerrNormalize(RawItem(id, "movie", 1, date, title))
        EXCEPT !._combined_score = combined]

\* the results the lists are made of: dates in the past and in the future,
\* missing and unparseable, scores present and absent, two results that
\* differ in their id alone
RankItems ==
    { RankItem(1, 20150612, "Q", NoScore),
      RankItem(2, 20270301, "Queue", 50),
      RankItem(3, 19930611, "Cue", 90),
      RankItem(4, 0, "Kew", 90),
      RankItem(5, Unparseable, "Q Rebirth", NoScore),
      RankItem(6, 20150612, "Q", NoScore),
      RankItem(7, 20280101, "Zed", 0) }

RankInputs == UNION { [1..n -> RankItems] : n \in 0..MaxItems }

\* year_filter of pick_best: None or (start_year, end_year)
YearRanges ==
    { NoYear, <<2015, 2015>>, <<1990, 2020>>, <<2027, 2030>>, <<2020, 1990>> }

\* the call that ran last: its arguments besides the list, what it
\* returned, and for fuzzy_match_results what it returns for that
RankCall(op, upcoming_only, year_filter, threshold, out, again) ==
    [op |-> op, upcoming_only |-> upcoming_only, year_filter |-> year_filter,
     threshold |-> threshold, out |-> out, again |-> again]

RankInit ==
    /\ backend = "overseerr"
    /\ service \in RankInputs
    /\ store = <<>>
    /\ turn = RankCall("none", FALSE, NoYear, 0, <<>>, <<>>)

PickBest ==
    /\ \E upcoming_only \in BOOLEAN, year_filter \in YearRanges :
           turn' = RankCall("pick_best", upcoming_only, year_filter, 0,
                            pick_best(service, upcoming_only, year_filter).value, <<>>)
    /\ UNCHANGED <<backend, service, store>>

FuzzyMatch ==
    /\ \E threshold \in {60, 70} :
           \E out \in { fuzzy_match_results(service, threshold) } :
               turn' = RankCall("fuzzy_match_results", FALSE, NoYear, threshold,
                                out, fuzzy_match_results(out, threshold))
    /\ UNCHANGED <<backend, service, store>>

RankNext == PickBest \/ FuzzyMatch

RankSpec == RankInit /\ [][RankNext]_vars

(***************************************************************************)
(* Properties of the ranking functions.  The keys and scores are written   *)
(* out here as the specification words them.                               *)
(***************************************************************************)
\* how often x occurs in the list s
Count(s, x) == Cardinality({ i \in 1..Len(s) : s[i] = x })

\* the release year of a result is there and parses
HasYear(r) == r._releaseDate # 0 /\ r._releaseDate # Unparseable

\* the results of the input that the year filter of the call lets through
YearFiltered ==
    IF turn.year_filter = NoYear THEN service
    ELSE FilterSeq(service,
                   { r \in Range(service) :
                       /\ HasYear(r)
                       /\ turn.year_filter[1] <= YearOf(r._releaseDate)
                       /\ YearOf(r._releaseDate) <= turn.year_filter[2] })

\* C15: for every year range [a, b] and every input list, pick_best with
\* that year filter returns only results whose parsed release year y
\* satisfies a <= y <= b, drops every result with a missing or unparseable
\* release year, and returns the empty list for empty input.
C15_YearFilter ==
    (turn.op = "pick_best" /\ turn.year_filter # NoYear)
    => /\ \A i \in 1..Len(turn.out) :
              /\ HasYear(turn.out[i])
              /\ turn.year_filter[1] <= YearOf(turn.out[i]._releaseDate)
              /\ YearOf(turn.out[i]._releaseDate) <= turn.year_filter[2]
       /\ \A r \in Range(service) : ~HasYear(r) => Count(turn.out, r) = 0
       /\ service = <<>> => turn.out = <<>>

\* pick_best with a year range has kept one result of three and dropped
\* one without a date and one whose date does not parse
C15_Witness ==
    /\ turn.op = "pick_best"
    /\ turn.year_filter = <<2015, 2015>>
    /\ Len(turn.out) = 1
    /\ \E i, j, k \in 1..Len(service) :
           /\ service[i]._releaseDate = 0
           /\ service[j]._releaseDate = Unparseable
           /\ service[k] = turn.out[1]

\* the key of a result: the upcoming bit, the match quality, the recency
RankKey(r, upcoming_only) ==
    << IF upcoming_only /\ r._date.t = "date" /\ r._date.v > Today THEN 1 ELSE 0,
       IF r._combined_score = NoScore THEN 0 ELSE r._combined_score,
       IF r._date.t = "date" THEN r._date.v ELSE 0 >>

\* key a is not below key b in the lexicographic order
KeyNotBelow(a, b) ==
    \/ a[1] > b[1]
    \/ a[1] = b[1] /\ a[2] > b[2]
    \/ a[1] = b[1] /\ a[2] = b[2] /\ a[3] >= b[3]

\* C16: pick_best orders its output descending by the lexicographic key
\* (upcoming bit, match quality, recency): every result with upcoming bit 1
\* precedes every result with upcoming bit 0 whatever their match quality
\* or release date, and the output is a permutation of the year-filtered
\* input.
C16_ThreeKeyOrder ==
    turn.op = "pick_best"
    => /\ \A i, j \in 1..Len(turn.out) :
              i < j => /\ KeyNotBelow(RankKey(turn.out[i], turn.upcoming_only),
                                      RankKey(turn.out[j], turn.upcoming_only))
                       /\ RankKey(turn.out[i], turn.upcoming_only)[1]
                              >= RankKey(turn.out[j], turn.upcoming_only)[1]
       /\ Len(turn.out) = Len(YearFiltered)
       /\ \A r \in Range(YearFiltered) \cup Range(turn.out) :
              Count(turn.out, r) = Count(YearFiltered, r)

\* pick_best has put an upcoming result of match quality 50 before a
\* released one of match quality 90 that came first in the input
C16_Witness ==
    /\ turn.op = "pick_best"
    /\ turn.upcoming_only
    /\ Len(service) >= 2
    /\ service[1]._combined_score = 90
    /\ Len(turn.out) >= 2
    /\ turn.out[1]._combined_score = 50
    /\ turn.out[1]._date.v > Today
    /\ turn.out[2] = service[1]

\* C17: pick_best is stable: two results with equal (upcoming bit, match
\* quality, recency) keys appear in the output in the same relative order
\* as in the input.
C17_StableOrder ==
    turn.op = "pick_best"
    => \A i, j \in 1..Len(turn.out) :
           ( /\ i < j
             /\ turn.out[i] # turn.out[j]
             /\ RankKey(turn.out[i], turn.upcoming_only)
                    = RankKey(turn.out[j], turn.upcoming_only) )
           => \E p, q \in 1..Len(YearFiltered) :
                  /\ p < q
                  /\ YearFiltered[p] = turn.out[i]
                  /\ YearFiltered[q] = turn.out[j]

\* pick_best has kept two results of equal key in their input order, below
\* a result that came after them in the input
C17_Witness ==
    /\ turn.op = "pick_best"
    /\ Len(service) = 3
    /\ service[1].id = 6
    /\ service[2].id = 1
    /\ turn.out = <<service[3], service[1], service[2]>>

\* C19: fuzzy_match_results is idempotent: for every threshold and result
\* list, applying it to its own output with the same query and threshold
\* returns the same results in the same order.
C19_FuzzyIdempotent ==
    turn.op = "fuzzy_match_results" => turn.again = turn.out

\* fuzzy_match_results has dropped a result and kept several, two of them
\* of equal score, and gives the same list for its own output
C19_Witness ==
    /\ turn.op = "fuzzy_match_results"
    /\ Len(service) = 3
    /\ Len(turn.out) = 2
    /\ turn.out[1] # turn.out[2]
    /\ turn.out[1]._fuzzy_score = turn.out[2]._fuzzy_score
    /\ turn.again = turn.out

\* the best of the four similarity metrics of a result's title
BestOfFour(r) ==
    LET sim == Similarity(r._title)
    IN  CHOOSE m \in {sim.ratio, sim.partial, sim.token_sort, sim.token_set} :
            \A n \in {sim.ratio, sim.partial, sim.token_sort, sim.token_set} : m >= n

\* a result as it was before fuzzy_match_results gave it a score
Unscored(r) == [r EXCEPT !._fuzzy_score = NoScore]

\* C20: fuzzy_match_results gives each result a fuzzy score equal to the
\* maximum of the four similarity metrics, keeps exactly the results whose
\* score is >= threshold (60 in the Download pipeline), and returns them
\* sorted by descending score.
C20_FuzzyScores ==
    turn.op = "fuzzy_match_results"
    => /\ \A i \in 1..Len(turn.out) :
              /\ turn.out[i]._fuzzy_score = BestOfFour(turn.out[i])
              /\ turn.out[i]._fuzzy_score >= turn.threshold
       /\ \A r \in Range(service) :
              Cardinality({ i \in 1..Len(turn.out) : Unscored(turn.out[i]) = r })
                 = IF BestOfFour(r) >= turn.threshold THEN Count(service, r) ELSE 0
       /\ Len(turn.out) <= Len(service)
       /\ \A i, j \in 1..Len(turn.out) :
              i < j => turn.out[i]._fuzzy_score >= turn.out[j]._fuzzy_score

\* fuzzy_match_results with threshold 60 has dropped a result of score 50
\* and put one of score 90 before one of score 65 that came first
C20_Witness ==
    /\ turn.op = "fuzzy_match_results"
    /\ turn.threshold = 60
    /\ Len(service) = 3
    /\ service[1]._title = "Cue"
    /\ \E i \in 1..3 : service[i]._title = "Kew"
    /\ Len(turn.out) = 2
    /\ turn.out[1]._fuzzy_score = 90
    /\ turn.out[2]._fuzzy_score = 65

\* the upcoming bit of a stored result, for the stored upcoming_only
UpcomingBit(row, r) ==
    IF row.upcoming_only /\ HasYear(r) /\ r._releaseDate > Today THEN 1 ELSE 0

\* C18: in the Download pipeline the match quality the ranker sorts on is
\* the fuzzy score the query enhancer attached to the result: among
\* results with equal upcoming bit, a result with a higher fuzzy score is
\* ranked before one with a lower fuzzy score, whatever their release
\* dates.
C18_FuzzyScoreIsMatchQuality ==
    ( /\ turn.intent = "Download"
      /\ turn.writes = 1
      /\ ~store[1].pending_did_you_mean_question )
    => \A i, j \in 1..Len(store[1].results) :
           ( /\ i < j
             /\ UpcomingBit(store[1], store[1].results[i])
                    = UpcomingBit(store[1], store[1].results[j]) )
           => store[1].results[i]._fuzzy_score >= store[1].results[j]._fuzzy_score


(***************************************************************************)
(* The HTTP calls of one turn, attempt by attempt: the session of          *)
(* MediaBackend.__init__ sends every call through an adapter with          *)
(* Retry(total=3, status_forcelist=[429, 500, 502, 503, 504]).  Here turn  *)
(* is the turn in progress: the operation the handler asked the facade     *)
(* for, the HTTP calls still to make, the call in flight and the calls     *)
(* that ended.  The responses carry no Retry-After header.                 *)
(***************************************************************************)
\* total of the retry strategy
RetryTotal == 3

status_forcelist == {429, 500, 502, 503, 504}

allowed_methods == {"HEAD", "GET", "OPTIONS", "POST"}

\* what one attempt ends with: a response with a status, or a failure of
\* the network (no connection, a connect or a read timeout)
AttemptOutcomes ==
    { HttpResp(s, <<>>) : s \in {200, 401, 403, 404, 409} \cup status_forcelist }
    \cup { HttpExc("ConnectTimeout"), HttpExc("ReadTimeout"), HttpExc("ConnectionError") }

\* the retry strategy, were it to retry on every error status
is_retry_AnyError(method, o) ==
    /\ method \in allowed_methods
    /\ (o.k # "resp" \/ o.status >= 400)

\* whether the adapter retries after an attempt that ended with o: a
\* failure of the network, or a status of status_forcelist, for a method of
\* allowed_methods
is_retry(method, o) ==
    /\ method \in allowed_methods
    /\ (o.k # "resp" \/ o.status \in status_forcelist)

\* an HTTP call of a backend client: session.get or session.post on an
\* endpoint, the retries it has left, its attempts so far, what the last
\* attempt ended with, and whether the call is over
HttpCall(endpoint, method) ==
    [endpoint |-> endpoint, method |-> method, total |-> RetryTotal,
     attempts |-> 0, last |-> [k |-> "none", status |-> 0], ended |-> FALSE,
     result |-> [k |-> "none", status |-> 0]]

\* no call is in flight
NoCall == [endpoint |-> "none"]

\* the HTTP calls an operation of the backend client makes, in order
CallPlan(b, op, media_type) ==
    IF b # "ombi"
    THEN IF op = "search" THEN <<HttpCall("search", "GET")>>
         ELSE <<HttpCall("request", "POST")>>
    ELSE IF op = "search"
         THEN (IF media_type # "tv" THEN <<HttpCall("Search/movie", "GET")>> ELSE <<>>)
              \o (IF media_type # "movie" THEN <<HttpCall("Search/tv", "GET")>> ELSE <<>>)
         ELSE IF media_type = "movie" THEN <<HttpCall("Request/movie", "POST")>>
         ELSE <<HttpCall("Search/tv/moviedb", "GET"), HttpCall("Request/tv", "POST")>>

\* what session.get and session.post give when the retries are used up:
\* RetryError after responses, ConnectTimeout (a Timeout) after connect
\* timeouts, ConnectionError after any other failure of the network
Exhausted(o) ==
    IF o.k = "resp" THEN [k |-> "RetryError", status |-> 0]
    ELSE IF o.k = "ConnectTimeout" THEN [k |-> "Timeout", status |-> 0]
    ELSE [k |-> "ConnectionError", status |-> 0]

\* one attempt of a call, were the retries never counted down
AfterAttempt_NoCountdown(call, o) ==
    LET retry == is_retry(call.method, o)
    IN  [call EXCEPT !.attempts = @ + 1,
                     !.last = [k |-> o.k, status |-> o.status],
                     !.ended = ~retry,
                     !.result = IF ~retry THEN [k |-> o.k, status |-> o.status]
                                ELSE @]

\* one attempt of a call: the adapter retries while the strategy says so
\* and total has not gone below zero
AfterAttempt(call, o) ==
    LET retry == is_retry(call.method, o)
        left == IF retry THEN call.total - 1 ELSE call.total
    IN  [call EXCEPT !.attempts = @ + 1,
                     !.last = [k |-> o.k, status |-> o.status],
                     !.total = left,
                     !.ended = ~retry \/ left < 0,
                     !.result = IF ~retry THEN [k |-> o.k, status |-> o.status]
                                ELSE IF left < 0 THEN Exhausted(o)
                                ELSE @]

\* whether the client goes on to the next call of its plan after the calls
\* that ended: OmbiBackend.search makes both searches whatever the first
\* gave, _request_tv posts only when the show was fetched
GoesOn(op, log) ==
    IF log = <<>> \/ op = "search" THEN TRUE
    ELSE log[Len(log)].result.k = "resp" /\ log[Len(log)].result.status < 400

RetryTurn(op, media_type, plan, cur, log, phase) ==
    [op |-> op, media_type |-> media_type, plan |-> plan, cur |-> cur,
     log |-> log, phase |-> phase]

RetryInit ==
    /\ backend \in Backends
    /\ service = <<>>
    /\ store = <<>>
    /\ turn = RetryTurn("none", None, <<>>, NoCall, <<>>, "answered")

\* a turn begins: handle_download calls overseerr.search, handle_yes calls
\* overseerr.request_media
Receive ==
    /\ turn.phase = "answered"
    /\ \E op \in {"search", "request_media"}, media_type \in {None, "movie", "tv"} :
           /\ op = "request_media" => media_type # None
           /\ turn' = RetryTurn(op, media_type, CallPlan(backend, op, media_type),
                                NoCall, <<>>, "calling")
    /\ UNCHANGED <<backend, service, store>>

\* the client makes the next HTTP call of the operation
Send ==
    /\ turn.phase = "calling"
    /\ turn.cur = NoCall
    /\ turn.plan # <<>>
    /\ GoesOn(turn.op, turn.log)
    /\ turn' = [turn EXCEPT !.cur = Head(turn.plan), !.plan = Tail(turn.plan)]
    /\ UNCHANGED <<backend, service, store>>

\* the adapter makes an attempt of the call in flight; a call that is over
\* goes to the log
Attempt ==
    /\ turn.phase = "calling"
    /\ turn.cur # NoCall
    /\ \E o \in AttemptOutcomes :
           \E call \in { AfterAttempt(turn.cur, o) } :
               turn' = IF call.ended
                       THEN [turn EXCEPT !.cur = NoCall, !.log = Append(@, call)]
                       ELSE [turn EXCEPT !.cur = call]
    /\ UNCHANGED <<backend, service, store>>

\* the operation is over and the handler returns its response: each except
\* clause of handle_download and handle_yes returns, none calls again
Answer ==
    /\ turn.phase = "calling"
    /\ turn.cur = NoCall
    /\ turn.plan = <<>> \/ ~GoesOn(turn.op, turn.log)
    /\ turn' = [turn EXCEPT !.phase = "answered", !.plan = <<>>]
    /\ UNCHANGED <<backend, service, store>>

RetryNext == Receive \/ Send \/ Attempt \/ Answer

RetrySpec == RetryInit /\ [][RetryNext]_vars

\* the calls of the turn in progress: those that ended and the one in flight
CallsOfTurn ==
    turn.log \o (IF turn.cur = NoCall THEN <<>> ELSE <<turn.cur>>)

\* an attempt ended with a status that is retried on, or with a failure of
\* the network
Retryable(o) ==
    \/ o.k \in {"ConnectTimeout", "ReadTimeout", "ConnectionError"}
    \/ o.k = "resp" /\ o.status \in {429, 500, 502, 503, 504}

\* no call has more than four attempts, and a call whose last attempt got
\* a response with any other status is over
AttemptsBounded ==
    \A i \in 1..Len(CallsOfTurn) :
        /\ CallsOfTurn[i].attempts <= 4
        /\ (CallsOfTurn[i].last.k = "resp" /\ ~Retryable(CallsOfTurn[i].last))
           => (CallsOfTurn[i].ended /\ CallsOfTurn[i].result = CallsOfTurn[i].last)

\* an attempt that is not the first of its call follows a retryable one
RetryOnlyAfterRetryable ==
    ( /\ turn.cur # NoCall
      /\ turn.cur.attempts >= 1
      /\ turn' # turn
      /\ turn'.phase = "calling" )
    => Retryable(turn.cur.last)

\* no endpoint is called twice in a turn, and a turn makes at most two calls
NoReissue ==
    /\ Len(CallsOfTurn) <= 2
    /\ \A i, j \in 1..Len(CallsOfTurn) :
           i # j => CallsOfTurn[i].endpoint # CallsOfTurn[j].endpoint

\* C21: every search and request HTTP call of the backend client is retried
\* at most 3 times (at most 4 attempts in total), and only after status
\* 429, 500, 502, 503 or 504 or a network failure; a response with any
\* other status (401, 403 and 409 among them) ends the call after that
\* attempt, and the handlers never issue a failed backend call again within
\* a turn.
C21_BoundedRetries ==
    /\ []AttemptsBounded
    /\ [][RetryOnlyAfterRetryable]_vars
    /\ []NoReissue

\* a call has ended after four attempts, and the turn was answered with
\* that one call made
C21_Witness ==
    /\ turn.phase = "answered"
    /\ Len(turn.log) = 1
    /\ turn.log[1].attempts = 4
    /\ turn.log[1].result.k = "RetryError"


(***************************************************************************)
(* The entry point: route_intent and the four handlers that keep no        *)
(* state.  An intent name is the tuple of its characters.  Here turn also  *)
(* holds the intent name of the request and the load_state calls of the    *)
(* handler, and the key may have a row that save_state did not write.      *)
(***************************************************************************)
\* str.lower()
lower(s) ==
    LET UpperCase ==
            << "A", "B", "C", "D", "E", "F", "G", "H", "I", "J", "K", "L", "M",
               "N", "O", "P", "Q", "R", "S", "T", "U", "V", "W", "X", "Y", "Z" >>
        LowerCase ==
            << "a", "b", "c", "d", "e", "f", "g", "h", "i", "j", "k", "l", "m",
               "n", "o", "p", "q", "r", "s", "t", "u", "v", "w", "x", "y", "z" >>
    IN  [i \in 1..Len(s) |->
            IF \E k \in 1..26 : UpperCase[k] = s[i]
            THEN LowerCase[CHOOSE k \in 1..26 : UpperCase[k] = s[i]]
            ELSE s[i]]

\* sub in s
Contains(s, sub) ==
    \E i \in 0..(Len(s) - Len(sub)) : SubSeq(s, i + 1, i + Len(sub)) = sub

\* the intent names the requests of a conversation carry, as the adapters
\* of the platforms make them
IntentNames ==
    { <<"L","a","u","n","c","h","I","n","t","e","n","t">>,
      <<"D","o","w","n","l","o","a","d","I","n","t","e","n","t">>,
      <<"A","M","A","Z","O","N",".","Y","e","s","I","n","t","e","n","t">>,
      <<"A","M","A","Z","O","N",".","N","o","I","n","t","e","n","t">>,
      <<"H","e","l","p","I","n","t","e","n","t">>,
      <<"C","a","n","c","e","l","I","n","t","e","n","t">>,
      <<"A","M","A","Z","O","N",".","F","a","l","l","b","a","c","k","I","n","t","e","n","t">> }

\* the handler route_intent picks for a name once lower-cased
Branch(intent_name) ==
    IF \/ Contains(intent_name, <<"l","a","u","n","c","h">>)
       \/ intent_name = <<"d","e","f","a","u","l","t"," ","w","e","l","c","o","m","e"," ",
                          "i","n","t","e","n","t">>
    THEN "Launch"
    ELSE IF \/ Contains(intent_name, <<"d","o","w","n","l","o","a","d">>)
            \/ Contains(intent_name, <<"r","e","q","u","e","s","t">>)
    THEN "Download"
    ELSE IF \/ Contains(intent_name, <<"y","e","s">>)
            \/ intent_name = <<"c","o","n","f","i","r","m">>
    THEN "Yes"
    ELSE IF \/ Contains(intent_name, <<"n","o">>)
            \/ intent_name = <<"r","e","j","e","c","t">>
    THEN "No"
    ELSE IF Contains(intent_name, <<"h","e","l","p">>) THEN "Help"
    ELSE IF \/ Contains(intent_name, <<"c","a","n","c","e","l">>)
            \/ Contains(intent_name, <<"s","t","o","p">>)
            \/ Contains(intent_name, <<"e","x","i","t">>)
    THEN "CancelStop"
    ELSE IF Contains(intent_name, <<"f","a","l","l","b","a","c","k">>) THEN "Fallback"
    ELSE "Fallback"

\* route_intent without the lower() of the name
route_intent_CaseSensitive(intent_name) == Branch(intent_name)

\* UnifiedVoiceHandler.route_intent: the handler the request goes to
route_intent(intent_name) == Branch(lower(intent_name))

\* UnifiedVoiceHandler.handle_launch
handle_launch(rows) ==
    Respond(VoiceResponse("welcome, what would you like to download?", TRUE, FALSE),
            rows, <<>>, <<>>, 0)

\* UnifiedVoiceHandler.handle_help
handle_help(rows) ==
    Respond(VoiceResponse("you can say things like, what would you like to download?",
                          TRUE, FALSE),
            rows, <<>>, <<>>, 0)

\* handle_cancel_stop, were it to delete the session of the key
handle_cancel_stop_DropsSession(rows) ==
    Respond(VoiceResponse("Goodbye!", FALSE, TRUE), <<>>, <<>>, <<>>, 0)

\* UnifiedVoiceHandler.handle_cancel_stop
handle_cancel_stop(rows) ==
    Respond(VoiceResponse("Goodbye!", FALSE, TRUE), rows, <<>>, <<>>, 0)

\* UnifiedVoiceHandler.handle_fallback
handle_fallback(rows) ==
    Respond(VoiceResponse("I didn't catch that, what would you like to download?",
                          TRUE, FALSE),
            rows, <<>>, <<>>, 0)

\* the load_state calls of a handler: handle_yes and handle_no begin with
\* one, no other handler has any
Loads(handler) == IF handler \in {"Yes", "No"} THEN 1 ELSE 0

\* the handler's run on the request
Dispatch(handler, b, slots, http, rows) ==
    IF handler = "Launch" THEN handle_launch(rows)
    ELSE IF handler = "Download" THEN handle_download(b, slots, http, http, rows)
    ELSE IF handler = "Yes" THEN handle_yes(b, http, http, rows)
    ELSE IF handler = "No" THEN handle_no(rows)
    ELSE IF handler = "Help" THEN handle_help(rows)
    ELSE IF handler = "CancelStop" THEN handle_cancel_stop(rows)
    ELSE handle_fallback(rows)

\* the turn as logged, with the intent name of the request
RoutedTurn(intent_name, handler, slots, o) ==
    [name |-> intent_name, loads |-> Loads(handler), intent |-> handler,
     slots |-> slots, resp |-> o.resp, exc |-> o.exc,
     calls |-> [i \in 1..Len(o.calls) |-> [o.calls[i] EXCEPT !.http = <<>>]],
     rets |-> o.rets, writes |-> o.writes]

RouteInit ==
    /\ backend \in Backends
    /\ service \in RawResponses
    /\ store \in {<<>>, <<Malformed>>}
    /\ turn = RoutedTurn(<<>>, "none", NoSlots,
                         Respond(VoiceResponse("", FALSE, FALSE), <<>>, <<>>, <<>>, 0))

\* a request comes in and route_intent hands it to a handler; the service
\* answers every call with status 200, and a Download request has slots
Route ==
    /\ \E intent_name \in IntentNames :
           \E handler \in { route_intent(intent_name) } :
               \E slots \in IF handler = "Download" THEN DownloadSlots ELSE {NoSlots} :
                   \E o \in { Dispatch(handler, backend, slots,
                                        HttpResp(200, service), store) } :
                       /\ store' = o.rows
                       /\ turn' = RoutedTurn(intent_name, handler, slots, o)
    /\ UNCHANGED <<backend, service>>

RouteSpec == RouteInit /\ [][Route]_vars


\* the response of a handler that keeps no state: its speech, whether it
\* has a reprompt, whether it ends the session
Templated(handler) ==
    IF handler = "Launch"
    THEN VoiceResponse("welcome, what would you like to download?", TRUE, FALSE)
    ELSE IF handler = "Help"
    THEN VoiceResponse("you can say things like, what would you like to download?",
                       TRUE, FALSE)
    ELSE IF handler = "CancelStop" THEN VoiceResponse("Goodbye!", FALSE, TRUE)
    ELSE VoiceResponse("I didn't catch that, what would you like to download?",
                       TRUE, FALSE)

\* C22: Launch, Help, Cancel/Stop and Fallback turns, in any session state
\* (pending flag set or not, record present or absent), return their
\* templated response without reading or writing the session store and
\* without calling the backend.
C22_StatelessIntents ==
    [][ turn'.intent \in {"Launch", "Help", "CancelStop", "Fallback"}
        => /\ turn'.resp = Templated(turn'.intent)
           /\ turn'.exc = None
           /\ turn'.loads = 0
           /\ turn'.writes = 0
           /\ turn'.calls = <<>>
           /\ store' = store ]_vars

\* a Cancel turn has run on a stored session with a pending flag set
C22_Witness ==
    /\ turn.intent = "CancelStop"
    /\ turn.resp.speech = "Goodbye!"
    /\ store # <<>>
    /\ store[1] # Malformed
    /\ PendingFlags(store[1]) # {}


(***************************************************************************)
(* route_intent on its own, applied to intent names made of a prefix, a    *)
(* word and a suffix.  Here service is the intent name of the request and  *)
(* turn the handler route_intent picked.                                   *)
(***************************************************************************)
\* the intent names route_intent is applied to
RouteInputs ==
    LET NamePrefixes == { <<>>, <<"A","M","A","Z","O","N",".">>, <<"M","y">> }
        NameWords ==
            { <<"Y","e","s">>, <<"y","e","s">>, <<"c","o","n","f","i","r","m">>,
              <<"C","o","n","f","i","r","m">>, <<"N","o">>, <<"n","o">>,
              <<"r","e","j","e","c","t">>, <<"R","E","J","E","C","T">>,
              <<"L","a","u","n","c","h">>, <<"D","o","w","n","l","o","a","d">>,
              <<"R","e","q","u","e","s","t">>, <<"H","e","l","p">>,
              <<"C","a","n","c","e","l">>, <<"S","t","o","p">>, <<"E","x","i","t">>,
              <<"F","a","l","l","b","a","c","k">>, <<"P","l","a","y">>,
              <<"D","e","f","a","u","l","t"," ","W","e","l","c","o","m","e"," ",
                "I","n","t","e","n","t">> }
        NameSuffixes == { <<>>, <<"I","n","t","e","n","t">>, <<"N","o","w">> }
    IN  { p \o w \o x : p \in NamePrefixes, w \in NameWords, x \in NameSuffixes }

NameInit ==
    /\ backend = "overseerr"
    /\ service \in RouteInputs
    /\ store = <<>>
    /\ turn = [intent |-> "none"]

\* route_intent is called on the name; turn keeps the handler it picked
RouteName ==
    /\ turn' = [intent |-> route_intent(service)]
    /\ UNCHANGED <<backend, service, store>>

NameSpec == NameInit /\ [][RouteName]_vars

\* the intent name of the request, in lower case, has the word in it
Has(word) == Contains(lower(service), word)

\* the intent name of the request, in lower case, is the word
Is(word) == lower(service) = word

\* the name passes the tests that route_intent makes before the one for Yes
NotLaunchNorDownload ==
    /\ ~Has(<<"l","a","u","n","c","h">>)
    /\ ~Is(<<"d","e","f","a","u","l","t"," ","w","e","l","c","o","m","e"," ",
             "i","n","t","e","n","t">>)
    /\ ~Has(<<"d","o","w","n","l","o","a","d">>)
    /\ ~Has(<<"r","e","q","u","e","s","t">>)

\* the name has none of the keywords in it
NoKeyword ==
    /\ NotLaunchNorDownload
    /\ ~Has(<<"y","e","s">>) /\ ~Has(<<"c","o","n","f","i","r","m">>)
    /\ ~Has(<<"n","o">>) /\ ~Has(<<"r","e","j","e","c","t">>)
    /\ ~Has(<<"h","e","l","p">>) /\ ~Has(<<"c","a","n","c","e","l">>)
    /\ ~Has(<<"s","t","o","p">>) /\ ~Has(<<"e","x","i","t">>)
    /\ ~Has(<<"f","a","l","l","b","a","c","k">>)

\* C23, as stated: route_intent classifies an intent name by
\* case-insensitive substring match: a name containing 'yes' or 'confirm'
\* is handled as Yes, a name containing 'no' or 'reject' as No, and a name
\* containing none of the recognized keywords as Fallback.  Stated for the
\* names that the tests for Launch and Download let through, and for No
\* those that the test for Yes lets through.
C23_AsStated ==
    (turn.intent # "none" /\ NotLaunchNorDownload)
    => /\ (Has(<<"y","e","s">>) \/ Has(<<"c","o","n","f","i","r","m">>))
          => turn.intent = "Yes"
       /\ ( /\ ~Has(<<"y","e","s">>) /\ ~Has(<<"c","o","n","f","i","r","m">>)
            /\ (Has(<<"n","o">>) \/ Has(<<"r","e","j","e","c","t">>)) )
          => turn.intent = "No"
       /\ NoKeyword => turn.intent = "Fallback"

\* C23: route_intent classifies an intent name, lower-cased, by the first
\* test it passes: among the names that are neither Launch nor Download
\* names, a name that contains 'yes' or is 'confirm' is handled as Yes;
\* otherwise a name that contains 'no' or is 'reject' is handled as No; and
\* a name containing none of the recognized keywords is handled as
\* Fallback.
C23_RouteIntent ==
    (turn.intent # "none" /\ NotLaunchNorDownload)
    => /\ (Has(<<"y","e","s">>) \/ Is(<<"c","o","n","f","i","r","m">>))
          => turn.intent = "Yes"
       /\ ( /\ ~Has(<<"y","e","s">>) /\ ~Is(<<"c","o","n","f","i","r","m">>)
            /\ (Has(<<"n","o">>) \/ Is(<<"r","e","j","e","c","t">>)) )
          => turn.intent = "No"
       /\ NoKeyword => turn.intent = "Fallback"

\* route_intent has handled a name with 'Yes' in capitals in it as Yes,
\* the name having the word 'No' after it
C23_Witness ==
    /\ turn.intent = "Yes"
    /\ service = <<"A","M","A","Z","O","N",".","Y","e","s","N","o","w">>


\* a Yes or a No turn on a row that does not parse is the turn of a key
\* with no row, and leaves the row alone
MalformedIsNoSession ==
    (turn'.intent \in {"Yes", "No"} /\ store = <<Malformed>>)
    => /\ turn'.resp.speech \in {"no active search, say a title",
                                 "please tell me the title"}
       /\ turn'.resp.reprompt
       /\ ~turn'.resp.should_end_session
       /\ turn'.exc = None
       /\ turn'.calls = <<>>
       /\ turn'.writes = 0
       /\ store' = store

\* a Download turn on a row that does not parse is the turn of a key with
\* no row, and the state it saves takes the place of the row
MalformedIsOverwritten ==
    (turn'.intent = "Download" /\ store = <<Malformed>>)
    => \E fresh \in { handle_download(backend, turn'.slots, HttpResp(200, service),
                                     HttpResp(200, service), <<>>) } :
           /\ turn'.resp = fresh.resp
           /\ turn'.exc = fresh.exc
           /\ turn'.rets = fresh.rets
           /\ turn'.writes = fresh.writes
           /\ turn'.writes = 1 => (store' = fresh.rows /\ Len(store') = 1
                                   /\ store'[1] # Malformed)
           /\ turn'.writes = 0 => store' = store

\* C24: when the stored record of a (user_id, conversation_id) holds text
\* that is not valid JSON, a Yes or No turn behaves exactly as with no
\* stored session (re-prompt, end-of-session false, no exception), and a
\* Download turn proceeds as a fresh search and overwrites the record.
C24_MalformedRow ==
    /\ [][MalformedIsNoSession]_vars
    /\ [][MalformedIsOverwritten]_vars

\* a Yes turn has run on a row that does not parse
C24_Witness ==
    /\ turn.intent = "Yes"
    /\ store = <<Malformed>>
    /\ turn.resp.speech = "no active search, say a title"
    /\ ~turn.resp.should_end_session


\* the turn finds a stored state with the type-clarification flag set
OnClarification ==
    store # <<>> /\ store[1].pending_media_type_clarification

\* the type a Yes or a No to the clarification question asks for: the
\* guessed type, or the other one
AskedType ==
    IF turn'.intent = "Yes" THEN store[1].clarification_type
    ELSE IF store[1].clarification_type = "movie" THEN "tv" ELSE "movie"

\* the stored results of the asked type, in their order
OfAskedType ==
    SelectSeq(store[1].results, LAMBDA r : r._mediaType = AskedType)

Mixed(results) ==
    /\ \E i \in 1..Len(results) : results[i]._mediaType = "movie"
    /\ \E i \in 1..Len(results) : results[i]._mediaType = "tv"

\* the types of the results with the latest release date that parses; the
\* type of the first result when no release date parses
LatestTypes(results) ==
    LET dated == { i \in 1..Len(results) : HasYear(results[i]) }
    IN  IF dated = {} THEN { results[1]._mediaType }
        ELSE { results[i]._mediaType :
                 i \in { k \in dated :
                           \A j \in dated :
                               results[j]._releaseDate <= results[k]._releaseDate } }

\* C26: a Download turn sets the type-clarification flag exactly when no
\* media type was given explicitly and the ranked results contain both a
\* movie and a tv result; the guessed type stored with the flag is the type
\* of the ranked result with the latest release date (the first ranked
\* result when no release date parses), and no result is presented in that
\* turn.  A turn that saves nothing made no ranking or an empty one.
C26_ClarificationAsked ==
    [][ turn'.intent = "Download"
        => /\ turn'.writes = 1
              => /\ store'[1].pending_media_type_clarification
                    <=> ( /\ turn'.slots.MediaType = None
                          /\ Mixed(store'[1].results) )
                 /\ store'[1].pending_media_type_clarification
                    => /\ store'[1].clarification_type
                              \in LatestTypes(store'[1].results)
                       /\ store'[1].index = 0
                       /\ turn'.resp.speech = "is it a <type> named <newest>?"
                       /\ turn'.resp.reprompt
                       /\ ~turn'.resp.should_end_session
           /\ turn'.writes = 0
              => turn'.resp.speech \in
                    {"please tell me the title", "can't reach the media server",
                     "authentication problem, contact your administrator",
                     "something went wrong with that search",
                     "couldn't find any matches", "(exception)"} ]_vars

\* a Download turn has asked whether a tv title is meant, the newest of
\* the ranked results, the list having a movie in it too
C26_Witness ==
    /\ turn.intent = "Download"
    /\ turn.writes = 1
    /\ store # <<>>
    /\ store[1].pending_media_type_clarification
    /\ store[1].clarification_type = "tv"
    /\ store[1].results[1]._mediaType = "tv"
    /\ store[1].results[2]._mediaType = "movie"
    /\ turn.resp.speech = "is it a <type> named <newest>?"


\* the titles of the service's answer that a search of the Download's
\* media type gives, the service answering with status 200
PreFuzzy ==
    { i \in 1..Len(service) :
        turn'.slots.MediaType = None \/ service[i].mediaType = turn'.slots.MediaType }

\* the best ratio of the query and a title of the search's answer
BestRatio ==
    CHOOSE m \in { Similarity(service[i].title).ratio : i \in PreFuzzy } :
        \A i \in PreFuzzy : Similarity(service[i].title).ratio <= m

\* a Download with a title and no year whose search gave results, none of
\* which the fuzzy filter keeps: the ranking is empty
EmptyRanking ==
    /\ turn'.intent = "Download"
    /\ turn'.slots.MediaTitle # ""
    /\ turn'.slots.Year = NoYear
    /\ PreFuzzy # {}
    /\ \A i \in PreFuzzy :
           LET sim == Similarity(service[i].title)
           IN  /\ sim.ratio < 60 /\ sim.partial < 60
               /\ sim.token_sort < 60 /\ sim.token_set < 60

OnQuestion ==
    /\ store # <<>>
    /\ ~store[1].pending_media_type_clarification
    /\ \/ store[1].pending_year_filter_question
       \/ store[1].pending_did_you_mean_question

\* the stored state with the flag of the question asked cleared
QuestionAnswered ==
    IF store[1].pending_year_filter_question
    THEN [store[1] EXCEPT !.pending_year_filter_question = FALSE]
    ELSE [store[1] EXCEPT !.pending_did_you_mean_question = FALSE]

\* C28: a Yes turn that answers a pending year-relax or did-you-mean
\* question clears that flag in the stored state, keeps the results and the
\* cursor 0 unchanged, presents results[0] as an open question, and does
\* not call request_media in that turn.
C28_YesAnswersQuestion ==
    [][ (turn'.intent = "Yes" /\ OnQuestion)
        => /\ store' = <<QuestionAnswered>>
           /\ PendingFlags(store'[1]) = {}
           /\ store'[1].results = store[1].results
           /\ store'[1].results # <<>>
           /\ store'[1].index = 0
           /\ turn'.writes = 1
           /\ turn'.resp.speech = build_speech_for_item(store[1].results[1])
           /\ turn'.resp.reprompt
           /\ ~turn'.resp.should_end_session
           /\ turn'.exc = None
           /\ turn'.calls = <<>> ]_vars

\* a Yes turn has accepted the suggested title: the flag is cleared and the
\* one suggested result is presented
C28_Witness ==
    /\ turn.intent = "Yes"
    /\ turn.writes = 1
    /\ turn.calls = <<>>
    /\ store # <<>>
    /\ store[1].query = "suggested"
    /\ PendingFlags(store[1]) = {}
    /\ Len(store[1].results) = 1
    /\ turn.resp.reprompt

\* C29: after a No turn answers a pending year-relax or did-you-mean
\* question, the turn is terminal, the user being told to search again, and
\* the pending flag is no longer set in the stored session, so that a later
\* Yes is not taken as an answer to that question.
C29_NoAnswersQuestion ==
    [][ (turn'.intent = "No" /\ OnQuestion)
        => /\ turn'.resp.should_end_session
           /\ turn'.resp.speech \in {"try again with a different year",
                                     "try again with a different title"}
           /\ store' # <<>> => /\ ~store'[1].pending_year_filter_question
                               /\ ~store'[1].pending_did_you_mean_question ]_vars

\* the Yes turn finds no pending flag and the cursor on a result that has
\* an id and is flagged available
OnAvailable ==
    /\ OnCandidate
    /\ store[1].index < Len(store[1].results)
    /\ Candidate.id # 0
    /\ Candidate._isAvailable

Threads == {1, 2}

\* the rows one more sequential turn can leave, the service answering 200
AfterTurn(b, svc, S) ==
    S \cup { Dispatch(x[1][1], b, x[1][2], HttpResp(200, svc), x[2]).rows :
               x \in (({"Download"} \X DownloadSlots)
                        \cup ({"Yes", "No"} \X {NoSlots})) \X S }

\* the rows a sequential dialogue of at most two turns leaves for the key
StoredSessions(b, svc) == AfterTurn(b, svc, AfterTurn(b, svc, {<<>>}))

\* a thread before its turn
Idle ==
    [pc |-> "start", intent |-> "none", payload |-> NoState, writes |-> 0,
     existing |-> 0, exc |-> None]

ConcInit ==
    /\ backend \in Backends
    /\ service \in RawResponses
    /\ store \in StoredSessions(backend, service)
    /\ turn = [found |-> store, threads |-> [p \in Threads |-> Idle]]

\* one_or_none(): the number of rows of the key, MultipleResultsFound when
\* there are several
one_or_none(rows) ==
    IF Len(rows) > 1 THEN [exc |-> "MultipleResultsFound", n |-> 0]
    ELSE [exc |-> None, n |-> Len(rows)]

\* the flush of save_state, were the cursor of the stored row kept
Flush_KeepsCursor(rows, existing, payload) ==
    IF existing = 1 THEN [rows EXCEPT ![1] = [payload EXCEPT !.index = rows[1].index]]
    ELSE Append(rows, payload)

\* the flush of save_state at commit: the row found is updated, or a row
\* is inserted
Flush(rows, existing, payload) ==
    IF existing = 1 THEN [rows EXCEPT ![1] = payload]
    ELSE Append(rows, payload)

\* a thread's turn up to its save_state call: Yes and No read the row,
\* then the handler runs on what was read.  The threads being alike, they
\* are numbered in the order they start
Handle(p) ==
    /\ turn.threads[p].pc = "start"
    /\ \A q \in Threads : q < p => turn.threads[q].pc # "start"
    /\ \E intent \in {"Download", "Yes", "No"} :
         \E slots \in IF intent = "Download" THEN DownloadSlots ELSE {NoSlots} :
           \E found \in { one_or_none(store) } :
             IF intent # "Download" /\ found.exc # None
             THEN turn' = [turn EXCEPT !.threads[p] =
                             [Idle EXCEPT !.pc = "done", !.intent = intent,
                                          !.exc = found.exc]]
             ELSE \E o \in { Dispatch(intent, backend, slots,
                                      HttpResp(200, service),
                                      IF found.exc # None THEN <<>> ELSE store) } :
                    turn' = [turn EXCEPT !.threads[p] =
                               [Idle EXCEPT
                                  !.pc = IF o.writes = 0 THEN "done" ELSE "save",
                                  !.intent = intent,
                                  !.payload = IF o.writes = 0 THEN NoState
                                              ELSE o.rows[1],
                                  !.writes = o.writes,
                                  !.exc = o.exc]]
    /\ UNCHANGED <<backend, service, store>>

\* save_state's query for the existing row
Query(p) ==
    /\ turn.threads[p].pc = "save"
    /\ \E found \in { one_or_none(store) } :
         turn' = [turn EXCEPT !.threads[p] =
                    IF found.exc # None
                    THEN [@ EXCEPT !.pc = "done", !.exc = found.exc, !.writes = 0]
                    ELSE [@ EXCEPT !.pc = "flush", !.existing = found.n]]
    /\ UNCHANGED <<backend, service, store>>

\* save_state's commit
Commit(p) ==
    /\ turn.threads[p].pc = "flush"
    /\ store' = Flush(store, turn.threads[p].existing, turn.threads[p].payload)
    /\ turn' = [turn EXCEPT !.threads[p].pc = "done"]
    /\ UNCHANGED <<backend, service>>

ConcNext == \E p \in Threads : Handle(p) \/ Query(p) \/ Commit(p)

ConcSpec == ConcInit /\ [][ConcNext]_vars


\* both turns have ended
BothDone == \A p \in Threads : turn.threads[p].pc = "done"

\* the threads whose turn has written the row
Writers == { p \in Threads : turn.threads[p].pc = "done" /\ turn.threads[p].writes = 1 }

\* with a record there before them, two ended turns leave one record: the
\* one found when neither wrote, else the state one of them wrote, whole;
\* its cursor is on a result and at most one flag is set
OneWriteStands ==
    (BothDone /\ turn.found # <<>>)
    => /\ Len(store) = 1
       /\ IF Writers = {} THEN store = turn.found
          ELSE \E p \in Writers : store[1] = turn.threads[p].payload
       /\ store[1].index >= 0 /\ store[1].index < Len(store[1].results)
       /\ Cardinality(PendingFlags(store[1])) <= 1

\* with a record there before them, a turn's commit leaves exactly the
\* state that turn wrote
LastWriteWins ==
    \A p \in Threads :
        ( /\ turn.found # <<>>
          /\ turn.threads[p].pc = "flush"
          /\ turn'.threads[p].pc = "done" )
        => store' = <<turn.threads[p].payload>>

\* C31: when two turns of one conversation with an existing record run
\* concurrently, in every interleaving of their reads and writes of the
\* store the final stored state is exactly the state written by one of the
\* two turns, the last write, and it satisfies the cursor bound and the
\* at-most-one-flag invariant.
C31_ConcurrentTurns == []OneWriteStands /\ [][LastWriteWins]_vars

\* two No turns have both read the cursor at 0 and both moved it to the
\* last result: one update is lost, and what stands is a state one wrote
C31_Witness ==
    /\ BothDone
    /\ turn.found # <<>>
    /\ turn.found[1].index = 0
    /\ \A p \in Threads : turn.threads[p].intent = "No" /\ turn.threads[p].writes = 1
    /\ store = <<turn.threads[1].payload>>
    /\ store[1].index = 1


\* C35: the store never holds two records for one (user id, conversation
\* id), also when two Download turns for a key with no record yet
\* interleave their existence check and insert; load_state and save_state
\* always find zero or one record.
C35_OneRecordPerKey == Len(store) <= 1


(***************************************************************************)
(* Every turn, with the time an attempt takes.  Each session.get and       *)
(* session.post carries timeout=(5, 30), so an attempt in flight ends;     *)
(* the handlers of the intents that call no backend run straight through.  *)
(***************************************************************************)
\* a turn that calls no backend: launch, help, cancel, stop, fallback, No,
\* and the paths of Download and Yes that return before the client is used
ReceiveLocal ==
    /\ turn.phase = "answered"
    /\ turn' = RetryTurn("local", None, <<>>, NoCall, <<>>, "calling")
    /\ UNCHANGED <<backend, service, store>>

TurnNext == RetryNext \/ ReceiveLocal

\* an attempt ends within its timeouts and the handler's own steps are
\* taken: a turn in progress is not left waiting
TurnSpec ==
    RetryInit /\ [][TurnNext]_vars /\ WF_vars(Send \/ Attempt \/ Answer)

RECURSIVE Attempts(_)
\* the HTTP attempts of a sequence of calls
Attempts(calls) ==
    IF calls = <<>> THEN 0 ELSE Head(calls).attempts + Attempts(Tail(calls))

\* C32: every turn, for every intent and backend behaviour (success, error
\* status, timeout, transport failure), ends with a response or a
\* classified error after a bounded number of HTTP attempts on the backend,
\* at most eight; no turn waits on the backend for ever.
C32_TurnTerminates ==
    /\ [](Attempts(CallsOfTurn) <= 8)
    /\ (turn.phase = "calling") ~> (turn.phase = "answered")

\* an Ombi request for a show has been answered after eight attempts: four
\* for the show, the last one answered, and four for the request
C32_Witness ==
    /\ turn.phase = "answered"
    /\ turn.op = "request_media"
    /\ Len(turn.log) = 2
    /\ Attempts(turn.log) = 8


NoRecordDeleted == Len(store') >= Len(store)

\* a Yes turn that finds no pending flag, or no record, leaves the store
\* as it is
YesLeavesRecord ==
    ( /\ turn'.intent = "Yes"
      /\ store # <<>> => PendingFlags(store[1]) = {} )
    => store' = store

\* a Yes turn that follows a Yes turn whose request was created calls
\* request_media again, for the same result
RepeatedYesRequestsAgain ==
    ( /\ turn.intent = "Yes"
      /\ turn.rets = <<Created>>
      /\ turn'.intent = "Yes" )
    => /\ store' = store
       /\ store # <<>>
       /\ Len(turn'.calls) = 1
       /\ turn'.calls[1].op = "request_media"
       /\ turn'.calls[1].id = turn.calls[1].id
       /\ turn'.calls[1].id = Candidate.id

\* C34: no engine turn deletes a session record, and a Yes turn with no
\* pending flag leaves the record unchanged whatever its outcome: after a
\* request was created the record is still there with the same results and
\* cursor, so a repeated Yes calls request_media again for the same result.
C34_RecordKept ==
    /\ [][NoRecordDeleted]_vars
    /\ [][YesLeavesRecord]_vars
    /\ [][RepeatedYesRequestsAgain]_vars

\* a Yes turn has created a request and the record is still there, the
\* cursor on the requested result
C34_Witness ==
    /\ turn.intent = "Yes"
    /\ turn.rets = <<Created>>
    /\ store # <<>>
    /\ PendingFlags(store[1]) = {}
    /\ store[1].index < Len(store[1].results)
    /\ turn.calls[1].id = Candidate.id
    /\ ~Candidate._isPartiallyAvailable


\* the last turn was a Download with a title that found nothing or failed
\* on the backend: it presented no result and saved no state
DownloadCameToNothing ==
    /\ turn.intent = "Download"
    /\ turn.slots.MediaTitle # ""
    /\ turn.writes = 0

\* C36: request_media is only ever called for a result of the most recent
\* Download turn of the conversation: after a Download that ends in 'not
\* found' or in a backend error, a following Yes does not request a result
\* left over from an earlier Download.
C36_NoStaleRequest ==
    [][ (DownloadCameToNothing /\ turn'.intent = "Yes") => turn'.calls = <<>> ]_vars


(***************************************************************************)
(* The sequential dialogue with the result the user was last shown.  The   *)
(* turns are those of Spec; turn also holds, as shown, the result the last *)
(* presenting response was built from.                                     *)
(***************************************************************************)
\* no result has been presented yet
NoItem == [nothing |-> TRUE]

\* the result a handler's response presents, if any: handle_download
\* speaks of ranked[0] after its last save_state, handle_yes of
\* filtered_results[0] or results[0] when it answers a question, handle_no
\* of filtered_results[0] or of next_item = results[idx]; every presenting
\* path has saved the state before
Presented(intent, rows, o) ==
    LET state == load_state(rows)
        wanted == IF intent = "Yes" THEN state.clarification_type
                  ELSE IF state.clarification_type = "movie" THEN "tv" ELSE "movie"
        filtered_results == SelectSeq(state.results, LAMBDA r : r._mediaType = wanted)
    IN  IF o.exc # None \/ o.writes = 0 \/ o.resp.should_end_session THEN NoItem
        ELSE IF intent = "Download"
        THEN (IF PendingFlags(o.rows[1]) = {} THEN o.rows[1].results[1] ELSE NoItem)
        ELSE IF state.pending_media_type_clarification THEN filtered_results[1]
        ELSE IF intent = "Yes" THEN state.results[1]
        ELSE state.results[state.index + 2]

\* the record of a turn with the result last shown
ShownTurn(t, o, rows, before) ==
    [intent |-> t.intent, slots |-> t.slots, resp |-> t.resp, exc |-> t.exc,
     calls |-> t.calls, rets |-> t.rets, writes |-> t.writes,
     shown |-> IF Presented(t.intent, rows, o) # NoItem
               THEN Presented(t.intent, rows, o) ELSE before]

DialogInit ==
    /\ backend \in Backends
    /\ service \in RawResponses
    /\ store = <<>>
    /\ turn = ShownTurn(Turn("none", Respond(VoiceResponse("", FALSE, FALSE),
                                             <<>>, <<>>, <<>>, 0), FALSE),
                        Respond(VoiceResponse("", FALSE, FALSE), <<>>, <<>>, <<>>, 0),
                        <<>>, NoItem)

DialogDownload ==
    \E slots \in DownloadSlots, http \in TurnOutcomes(FALSE),
       http_tv \in TurnOutcomes(FALSE) :
        /\ backend # "ombi" => http_tv = http
        /\ backend = "ombi" =>
              \/ http_tv = http
              \/ http.status = 401 /\ http_tv.status = 200
              \/ http.status = 200 /\ http_tv.k = "Timeout"
        /\ \E o \in { handle_download(backend, slots, SearchHttp(http),
                                       SearchHttp(http_tv), store) } :
               /\ store' = o.rows
               /\ turn' = ShownTurn([Turn("Download", o, FALSE) EXCEPT !.slots = slots],
                                    o, store, turn.shown)
        /\ UNCHANGED <<backend, service>>

DialogYes ==
    \E http_show \in TurnOutcomes(FALSE), http \in TurnOutcomes(FALSE) :
        /\ backend # "ombi" => http_show = http
        /\ backend = "ombi" => (http_show = http \/ http_show.status = 200)
        /\ \E o \in { handle_yes(backend, http_show, http, store) } :
               /\ store' = o.rows
               /\ turn' = ShownTurn(Turn("Yes", o, FALSE), o, store, turn.shown)
        /\ UNCHANGED <<backend, service>>

DialogNo ==
    /\ \E o \in { handle_no(store) } :
           /\ store' = o.rows
           /\ turn' = ShownTurn(Turn("No", o, FALSE), o, store, turn.shown)
    /\ UNCHANGED <<backend, service>>

DialogNext == DialogDownload \/ DialogYes \/ DialogNo

DialogSpec == DialogInit /\ [][DialogNext]_vars

\* C37: in a sequential dialogue, every call of request_media carries the
\* id and the media type of results[index] of the stored session, and that
\* result is the one most recently presented to the user in the
\* conversation (by Download, by a No that moved on, or by a Yes or No that
\* answered a question).
C37_RequestsWhatWasShown ==
    [][ (turn'.intent = "Yes" /\ turn'.calls # <<>>)
        => /\ store # <<>>
           /\ store[1].index < Len(store[1].results)
           /\ Len(turn'.calls) = 1
           /\ turn'.calls[1].op = "request_media"
           /\ turn'.calls[1].id = Candidate.id
           /\ turn'.calls[1].media_type = Candidate._mediaType
           /\ turn.shown = Candidate ]_vars

\* a Yes turn has requested the second result, which a No turn had
\* presented
C37_Witness ==
    /\ turn.intent = "Yes"
    /\ Len(turn.calls) = 1
    /\ store # <<>>
    /\ store[1].index = 1
    /\ turn.shown = store[1].results[2]
    /\ turn.calls[1].id = turn.shown.id


\* C38: every session state the engine persists has a non-empty results
\* sequence, so the 'no results to show' branches of handle_yes for a
\* pending year-relax or did-you-mean question are not reached from states
\* the engine wrote.
C38_ResultsNeverEmpty ==
    /\ \A i \in 1..Len(store) : store[i].results # <<>>
    /\ turn.resp.speech \notin {"no results to show", "don't have that result anymore"}

\* a Download has persisted a state with a pending did-you-mean question,
\* whose results hold the suggestion
C38_Witness ==
    /\ turn.intent = "Download"
    /\ turn.writes = 1
    /\ store # <<>>
    /\ store[1].pending_did_you_mean_question
    /\ Len(store[1].results) = 1


(***************************************************************************)
(* Requests that come through the Alexa adapter.  parse_request turns the  *)
(* request's type and intent into the intent name route_intent sees.       *)
(***************************************************************************)
\* the Alexa requests of the model: their type, the name of the intent
\* (<<>> when the request has none) and the slots
AlexaRequests ==
    { [type |-> "LaunchRequest", name |-> <<>>, slots |-> NoSlots],
      [type |-> "SessionEndedRequest", name |-> <<>>, slots |-> NoSlots],
      [type |-> "CanFulfillIntentRequest", name |-> <<>>, slots |-> NoSlots],
      [type |-> "IntentRequest", name |-> <<>>, slots |-> NoSlots],
      [type |-> "IntentRequest",
       name |-> <<"A","M","A","Z","O","N",".","F","a","l","l","b","a","c","k",
                  "I","n","t","e","n","t">>,
       slots |-> NoSlots] }
    \cup { [type |-> "IntentRequest",
            name |-> <<"D","o","w","n","l","o","a","d","I","n","t","e","n","t">>,
            slots |-> slots] : slots \in DownloadSlots }

\* AlexaAdapter.parse_request: the intent name and the slots of the
\* VoiceRequest
parse_request(request) ==
    IF request.type = "LaunchRequest"
    THEN [intent_name |-> <<"L","a","u","n","c","h","I","n","t","e","n","t">>,
          slots |-> NoSlots]
    ELSE IF request.type = "IntentRequest"
    THEN [intent_name |-> IF request.name = <<>> THEN <<"U","n","k","n","o","w","n">>
                          ELSE request.name,
          slots |-> request.slots]
    ELSE IF request.type = "SessionEndedRequest"
    THEN [intent_name |-> <<"S","e","s","s","i","o","n","E","n","d","e","d",
                            "R","e","q","u","e","s","t">>,
          slots |-> NoSlots]
    ELSE [intent_name |-> <<"U","n","k","n","o","w","n">>, slots |-> NoSlots]

\* the webhook for an Alexa request: the adapter parses it and route_intent
\* hands it to a handler; the service answers every call with status 200
AlexaRoute ==
    /\ \E request \in AlexaRequests :
         \E parsed \in { parse_request(request) } :
           \E handler \in { route_intent(parsed.intent_name) } :
             \E o \in { Dispatch(handler, backend, parsed.slots,
                                  HttpResp(200, service), store) } :
                 /\ store' = o.rows
                 /\ turn' = RoutedTurn(parsed.intent_name, handler, parsed.slots, o)
    /\ UNCHANGED <<backend, service>>

AlexaSpec == RouteInit /\ [][AlexaRoute]_vars

\* C39: a request the Alexa adapter cannot classify (it gives it the intent
\* name 'Unknown') and a SessionEndedRequest are answered without changing
\* the stored session and without calling the backend.
C39_UnclassifiedIsInert ==
    [][ turn'.name \in { <<"U","n","k","n","o","w","n">>,
                         <<"S","e","s","s","i","o","n","E","n","d","e","d",
                           "R","e","q","u","e","s","t">> }
        => /\ store' = store
           /\ turn'.calls = <<>> ]_vars


(***************************************************************************)
(* normalize_result alone.  service holds one raw search hit whose status  *)
(* fields are drawn freely: mediaInfo.status for Overseerr and Jellyseerr, *)
(* available, requested and approved for Ombi; turn holds the normalised   *)
(* result.                                                                 *)
(***************************************************************************)
RawHits ==
    { [id |-> 11, mediaType |-> mt, status |-> status, available |-> available,
       requested |-> requested, approved |-> approved, releaseDate |-> 20150612,
       title |-> "Q"] :
        mt \in {"movie", "tv"}, status \in 1..6,
        available \in BOOLEAN, requested \in BOOLEAN, approved \in BOOLEAN }

NormInit ==
    /\ backend \in Backends
    /\ service \in { <<r>> : r \in RawHits }
    /\ store = <<>>
    /\ turn = [result |-> NoItem]

\* search() normalises the hit
Normalize ==
    /\ turn.result = NoItem
    /\ turn' = [result |-> MapSeq(service, IF backend = "ombi"
                                           THEN service[1].mediaType ELSE None)[1]]
    /\ UNCHANGED <<backend, service, store>>

NormSpec == NormInit /\ [][Normalize]_vars

\* C40: in every normalised search result of every backend the status
\* flags agree with the availability status code: at most one of
\* available, partially available, pending and processing is true, and
\* each flag is true exactly when the status is the corresponding value.
C40_FlagsAgreeWithStatus ==
    turn.result # NoItem
    => /\ turn.result._isAvailable <=> (turn.result._mediaStatus = 5)
       /\ turn.result._isPartiallyAvailable <=> (turn.result._mediaStatus = 4)
       /\ turn.result._isProcessing <=> (turn.result._mediaStatus = 3)
       /\ turn.result._isPending <=> (turn.result._mediaStatus = 2)
       /\ Cardinality({ f \in {"_isAvailable", "_isPartiallyAvailable",
                               "_isProcessing", "_isPending"} :
                          turn.result[f] }) <= 1

=============================================================================
